---- MODULE Spec2Model ----
(***************************************************************************)
(* netcupscp-exporter: the Prometheus collector that scrapes the netcup    *)
(* Server Control Panel API.  Three generations of the collector are in    *)
(* the tree and all three are modelled:                                    *)
(*   "rest"   src/metrics/metrics.go      (REST client, slog)              *)
(*   "soap"   src/pkg/metrics/metrics.go  (SOAP client, slog)              *)
(*   "legacy" src/main.go                 (SOAP client, go-kit log)        *)
(* One Collect() is a sequence of steps, one per upstream call; the        *)
(* samples sent on the metric channel are recorded in ch.                  *)
(***************************************************************************)
EXTENDS Integers, Sequences, FiniteSets, TLC

(***************************************************************************)
(* Go pointers: nil is the empty tuple, a non-nil pointer a 1-tuple.       *)
(***************************************************************************)
None == <<>>
Some(v) == <<v>>
IsNil(p) == p = <<>>
Deref(p) == p[1]

OptOf(S) == {None} \cup {Some(v) : v \in S}
OptBool == OptOf(BOOLEAN)

RECURSIVE Concat(_)
Concat(ss) == IF ss = <<>> THEN <<>> ELSE Head(ss) \o Concat(Tail(ss))

SeqsUpTo(S, n) == UNION {[1..k -> S] : k \in 0..n}

Range(s) == {s[i] : i \in 1..Len(s)}

(***************************************************************************)
(* Bounds of the model.                                                    *)
(***************************************************************************)
MaxServers == 2
MaxTasks == 2
MaxIfaces == 2
MaxDisks == 2
MaxIps == 2

(***************************************************************************)
(* prometheus.NewDesc / prometheus.MustNewConstMetric                      *)
(***************************************************************************)
prefix == "scp_"

NewDesc(fqName, variableLabels) ==
    [fqName |-> fqName, variableLabels |-> variableLabels]

\* MustNewConstMetric panics when the number of label values differs from the
\* number of the descriptor's variable labels; BadMetric marks that outcome.
BadMetric == [fqName |-> "!panic", labels |-> <<>>, value |-> 0]

MustNewConstMetric(desc, value, labelValues) ==
    IF Len(labelValues) = Len(desc.variableLabels)
    THEN [fqName |-> desc.fqName, labels |-> labelValues, value |-> value]
    ELSE BadMetric

(***************************************************************************)
(* The collector objects.  logger is a pointer/interface: the legacy       *)
(* constructor never sets it.                                              *)
(***************************************************************************)
NewScpCollector ==
    [ client              |-> Some("client"),
      logger              |-> Some("logger"),
      cpuCores            |-> NewDesc(prefix \o "cpu_cores", <<"vserver">>),
      memory              |-> NewDesc(prefix \o "memory_bytes", <<"vserver">>),
      monthlyTrafficIn    |-> NewDesc(prefix \o "monthlytraffic_in_bytes", <<"vserver", "month", "year">>),
      monthlyTrafficOut   |-> NewDesc(prefix \o "monthlytraffic_out_bytes", <<"vserver", "month", "year">>),
      monthlyTrafficTotal |-> NewDesc(prefix \o "monthlytraffic_total_bytes", <<"vserver", "month", "year">>),
      serverStartTime     |-> NewDesc(prefix \o "server_start_time_seconds", <<"vserver">>),
      ipInfo              |-> NewDesc(prefix \o "ip_info", <<"vserver", "ip">>),
      ifaceThrottled      |-> NewDesc(prefix \o "interface_throttled",
                                 <<"vserver", "driver", "id", "ip", "ip_type", "mac", "throttle_message">>),
      serverStatus        |-> NewDesc(prefix \o "server_status",
                                 <<"vserver", "status", "nickname", "architecture", "site_city">>),
      rescueActive        |-> NewDesc(prefix \o "rescue_active", <<"vserver", "message">>),
      diskCapacity        |-> NewDesc(prefix \o "disk_capacity_bytes", <<"vserver", "driver", "name">>),
      diskUsed            |-> NewDesc(prefix \o "disk_used_bytes", <<"vserver", "driver", "name">>),
      diskOptimization    |-> NewDesc(prefix \o "disk_optimization", <<"vserver", "driver", "name", "message">>),
      snapshotCount       |-> NewDesc(prefix \o "snapshot_count", <<"vserver">>),
      configChanged       |-> NewDesc(prefix \o "config_changed", <<"vserver">>),
      interfaceSpeed      |-> NewDesc(prefix \o "interface_speed_mbits", <<"vserver", "mac", "driver">>),
      cpuMaxCount         |-> NewDesc(prefix \o "cpu_max_count", <<"vserver">>),
      memoryMax           |-> NewDesc(prefix \o "memory_max_bytes", <<"vserver">>),
      disksAvailableSpace |-> NewDesc(prefix \o "disks_available_space_bytes", <<"vserver">>),
      autostartEnabled    |-> NewDesc(prefix \o "autostart_enabled", <<"vserver">>),
      uefiEnabled         |-> NewDesc(prefix \o "uefi_enabled", <<"vserver">>),
      latestQemu          |-> NewDesc(prefix \o "latest_qemu", <<"vserver">>),
      disabled            |-> NewDesc(prefix \o "disabled", <<"vserver">>),
      snapshotAllowed     |-> NewDesc(prefix \o "snapshot_allowed", <<"vserver">>),
      maintenanceStart    |-> NewDesc(prefix \o "maintenance_start_time_seconds", <<>>),
      maintenanceFinish   |-> NewDesc(prefix \o "maintenance_finish_time_seconds", <<>>),
      taskInfo            |-> NewDesc(prefix \o "task_info", <<"uuid", "name", "state">>),
      tasksPending        |-> NewDesc(prefix \o "tasks_pending_count", <<>>),
      apiUp               |-> NewDesc(prefix \o "api_up", <<>>) ]

NewScpCollectorWS ==
    [ client              |-> Some("client"),
      logger              |-> Some("logger"),
      cpuCores            |-> NewDesc(prefix \o "cpu_cores", <<"vserver">>),
      memory              |-> NewDesc(prefix \o "memory_bytes", <<"vserver">>),
      monthlyTrafficIn    |-> NewDesc(prefix \o "monthlytraffic_in_bytes", <<"vserver", "month", "year">>),
      monthlyTrafficOut   |-> NewDesc(prefix \o "monthlytraffic_out_bytes", <<"vserver", "month", "year">>),
      monthlyTrafficTotal |-> NewDesc(prefix \o "monthlytraffic_total_bytes", <<"vserver", "month", "year">>),
      serverStartTime     |-> NewDesc(prefix \o "server_start_time_seconds", <<"vserver">>),
      ipInfo              |-> NewDesc(prefix \o "ip_info", <<"vserver", "ip">>),
      ifaceThrottled      |-> NewDesc(prefix \o "interface_throttled",
                                 <<"vserver", "driver", "id", "ip", "ip_type", "mac", "throttle_message">>),
      serverStatus        |-> NewDesc(prefix \o "server_status", <<"vserver", "status", "nickname">>),
      rescueActive        |-> NewDesc(prefix \o "rescue_active", <<"vserver", "message">>),
      rebootRecommended   |-> NewDesc(prefix \o "reboot_recommended", <<"vserver", "message">>),
      diskCapacity        |-> NewDesc(prefix \o "disk_capacity_bytes", <<"vserver", "driver", "name">>),
      diskUsed            |-> NewDesc(prefix \o "disk_used_bytes", <<"vserver", "driver", "name">>),
      diskOptimization    |-> NewDesc(prefix \o "disk_optimization", <<"vserver", "driver", "name", "message">>) ]

\* src/main.go: the same descriptors, but the logger argument is never stored.
NewScpCollectorLegacy == [NewScpCollectorWS EXCEPT !.logger = None]

Variants == {"rest", "soap", "legacy"}
SoapVariants == {"soap", "legacy"}

NewCollector(v) ==
    CASE v = "rest"   -> NewScpCollector
      [] v = "soap"   -> NewScpCollectorWS
      [] v = "legacy" -> NewScpCollectorLegacy

(***************************************************************************)
(* Describe: the descriptors sent on the channel, in order.                *)
(***************************************************************************)
DescribeRest(c) ==
    << c.cpuCores, c.memory, c.monthlyTrafficIn, c.monthlyTrafficOut,
       c.monthlyTrafficTotal, c.serverStartTime, c.ipInfo, c.ifaceThrottled,
       c.serverStatus, c.rescueActive, c.diskCapacity, c.diskUsed,
       c.diskOptimization, c.snapshotCount, c.configChanged, c.interfaceSpeed,
       c.cpuMaxCount, c.memoryMax, c.disksAvailableSpace, c.autostartEnabled,
       c.uefiEnabled, c.latestQemu, c.disabled, c.snapshotAllowed,
       c.maintenanceStart, c.maintenanceFinish, c.taskInfo, c.tasksPending,
       c.apiUp >>

DescribeWS(c) ==
    << c.cpuCores, c.memory, c.monthlyTrafficIn, c.monthlyTrafficOut,
       c.monthlyTrafficTotal, c.serverStartTime, c.ipInfo, c.ifaceThrottled,
       c.serverStatus, c.rescueActive, c.diskCapacity, c.diskUsed,
       c.diskOptimization >>

(***************************************************************************)
(* REST collector: field-to-metric mapping of one server detail response.  *)
(***************************************************************************)
RUNNING == "RUNNING"
NO == "NO"
TaskStatePENDING == "PENDING"
TaskStateRUNNING == "RUNNING"
StatusOK == 200

\* time.Now() of the scrape, and the month and year labels derived from it
now == 1000 * 1000
month == "11"
year == "2026"

BoolGauge(b) == IF b THEN 1 ELSE 0

\* the width in bits of the signed integer type of the MiB fields
MiBFieldBits == 32

\* x*1024*1024 evaluated on the integer field before the float64 conversion:
\* the product is kept in the type of the field and wraps at its width
MiBToBytes(x) ==
    LET m == 2 ^ (MiBFieldBits - 20)
        r == x % m
    IN IF r < m \div 2 THEN r * 1024 * 1024 ELSE (r - m) * 1024 * 1024

\* "" when the string pointer is nil
StrOrEmpty(p) == IF IsNil(p) THEN "" ELSE Deref(p)

\* an optional boolean flag: a sample only when the pointer is non-nil
FlagSamples(desc, p, vserverName) ==
    IF ~IsNil(p)
    THEN << MustNewConstMetric(desc, BoolGauge(Deref(p)), <<vserverName>>) >>
    ELSE <<>>

\* an optional number: a sample only when the pointer is non-nil
CountSamples(desc, p, vserverName) ==
    IF ~IsNil(p)
    THEN << MustNewConstMetric(desc, Deref(p), <<vserverName>>) >>
    ELSE <<>>

\* an optional MiB field: a sample in bytes only when the pointer is non-nil
MiBSamples(desc, p, vserverName) ==
    IF ~IsNil(p)
    THEN << MustNewConstMetric(desc, MiBToBytes(Deref(p)), <<vserverName>>) >>
    ELSE <<>>

ServerScalarSamples(c, server, vserverName) ==
    FlagSamples(c.disabled, server.Disabled, vserverName)
    \o CountSamples(c.cpuMaxCount, server.MaxCpuCount, vserverName)
    \o MiBSamples(c.disksAvailableSpace, server.DisksAvailableSpaceInMiB, vserverName)
    \o FlagSamples(c.snapshotAllowed, server.SnapshotAllowed, vserverName)
    \o CountSamples(c.snapshotCount, server.SnapshotCount, vserverName)

LiveScalarSamples(c, liveInfo, vserverName) ==
    CountSamples(c.cpuCores, liveInfo.CpuCount, vserverName)
    \o MiBSamples(c.memory, liveInfo.CurrentServerMemoryInMiB, vserverName)
    \o MiBSamples(c.memoryMax, liveInfo.MaxServerMemoryInMiB, vserverName)
    \o FlagSamples(c.autostartEnabled, liveInfo.Autostart, vserverName)
    \o FlagSamples(c.uefiEnabled, liveInfo.Uefi, vserverName)
    \o FlagSamples(c.latestQemu, liveInfo.LatestQemu, vserverName)
    \o FlagSamples(c.configChanged, liveInfo.ConfigChanged, vserverName)

\* a received total that looks at the first interface alone
TotalInFirstOnly(ifaces) ==
    IF ifaces = <<>> \/ IsNil(Head(ifaces).RxMonthlyInMiB) THEN 0
    ELSE Deref(Head(ifaces).RxMonthlyInMiB) * 1024 * 1024

\* totalIn / totalOut: the loop over the interfaces
RECURSIVE TotalIn(_)
TotalIn(ifaces) ==
    IF ifaces = <<>> THEN 0
    ELSE (IF ~IsNil(Head(ifaces).RxMonthlyInMiB)
          THEN Deref(Head(ifaces).RxMonthlyInMiB) * 1024 * 1024 ELSE 0)
         + TotalIn(Tail(ifaces))

RECURSIVE TotalOut(_)
TotalOut(ifaces) ==
    IF ifaces = <<>> THEN 0
    ELSE (IF ~IsNil(Head(ifaces).TxMonthlyInMiB)
          THEN Deref(Head(ifaces).TxMonthlyInMiB) * 1024 * 1024 ELSE 0)
         + TotalOut(Tail(ifaces))

InterfacesOrEmpty(liveInfo) ==
    IF ~IsNil(liveInfo.Interfaces) THEN Deref(liveInfo.Interfaces) ELSE <<>>

\* a total that leaves out the transmitted traffic
TrafficTotalInOnly(totalIn, totalOut) == totalIn

TrafficTotal(totalIn, totalOut) == totalIn + totalOut

TrafficSamples(c, liveInfo, vserverName) ==
    LET totalIn == TotalIn(InterfacesOrEmpty(liveInfo))
        totalOut == TotalOut(InterfacesOrEmpty(liveInfo))
    IN << MustNewConstMetric(c.monthlyTrafficIn, totalIn, <<vserverName, month, year>>),
          MustNewConstMetric(c.monthlyTrafficOut, totalOut, <<vserverName, month, year>>),
          MustNewConstMetric(c.monthlyTrafficTotal, TrafficTotal(totalIn, totalOut),
                             <<vserverName, month, year>>) >>

StatusSamples(c, server, liveInfo, vserverName, nickname) ==
    LET online == IF ~IsNil(liveInfo.State) /\ Deref(liveInfo.State) = RUNNING THEN 1 ELSE 0
        status == StrOrEmpty(liveInfo.State)
        arch == StrOrEmpty(server.Architecture)
        city == IF ~IsNil(server.Site) THEN Deref(server.Site).City ELSE ""
    IN << MustNewConstMetric(c.serverStatus, online,
                             <<vserverName, status, nickname, arch, city>>) >>

StartTimeSamples(c, liveInfo, vserverName) ==
    IF ~IsNil(liveInfo.UptimeInSeconds)
    THEN << MustNewConstMetric(c.serverStartTime, now - Deref(liveInfo.UptimeInSeconds),
                               <<vserverName>>) >>
    ELSE <<>>

\* one interface_throttled sample per entry of an address list
AddrSamples(c, addrs, ipType, throttled, vserverName, driver, mac) ==
    IF ~IsNil(addrs)
    THEN [i \in 1..Len(Deref(addrs)) |->
            MustNewConstMetric(c.ifaceThrottled, throttled,
                <<vserverName, driver, "", Deref(addrs)[i], ipType, mac, "">>)]
    ELSE <<>>

IfaceSamples(c, iface, vserverName) ==
    LET throttled == IF ~IsNil(iface.TrafficThrottled) /\ Deref(iface.TrafficThrottled)
                     THEN 1 ELSE 0
        mac == StrOrEmpty(iface.Mac)
        driver == StrOrEmpty(iface.Driver)
    IN (IF ~IsNil(iface.SpeedInMBits)
        THEN << MustNewConstMetric(c.interfaceSpeed, Deref(iface.SpeedInMBits),
                                   <<vserverName, mac, driver>>) >>
        ELSE <<>>)
       \o AddrSamples(c, iface.Ipv4Addresses, "ipv4", throttled, vserverName, driver, mac)
       \o AddrSamples(c, iface.Ipv6LinkLocalAddresses, "ipv6", throttled, vserverName, driver, mac)
       \o AddrSamples(c, iface.Ipv6NetworkPrefixes, "ipv6", throttled, vserverName, driver, mac)

InterfaceSamples(c, liveInfo, vserverName) ==
    LET ifaces == InterfacesOrEmpty(liveInfo)
    IN Concat([i \in 1..Len(ifaces) |-> IfaceSamples(c, ifaces[i], vserverName)])

\* capacity / allocation: 0 unless the pointer is non-nil
DiskBytes(p) == IF ~IsNil(p) THEN Deref(p) * 1024 * 1024 ELSE 0

DiskSamples(c, liveInfo, disk, vserverName) ==
    LET dev == StrOrEmpty(disk.Dev)
        driver == StrOrEmpty(disk.Driver)
        capacity == DiskBytes(disk.CapacityInMiB)
        allocation == DiskBytes(disk.AllocationInMiB)
        opt == ~IsNil(liveInfo.RequiredStorageOptimization)
               /\ Deref(liveInfo.RequiredStorageOptimization) # NO
        optimize == IF opt THEN 1 ELSE 0
        msg == IF opt THEN Deref(liveInfo.RequiredStorageOptimization) ELSE ""
    IN << MustNewConstMetric(c.diskCapacity, capacity, <<vserverName, driver, dev>>),
          MustNewConstMetric(c.diskUsed, allocation, <<vserverName, driver, dev>>),
          MustNewConstMetric(c.diskOptimization, optimize, <<vserverName, driver, dev, msg>>) >>

\* a disk mapping that stops after the first disk
DisksSamplesFirstOnly(c, liveInfo, vserverName) ==
    IF ~IsNil(liveInfo.Disks) /\ Deref(liveInfo.Disks) # <<>>
    THEN DiskSamples(c, liveInfo, Head(Deref(liveInfo.Disks)), vserverName)
    ELSE <<>>

DisksSamples(c, liveInfo, vserverName) ==
    IF ~IsNil(liveInfo.Disks)
    THEN Concat([i \in 1..Len(Deref(liveInfo.Disks)) |->
                    DiskSamples(c, liveInfo, Deref(liveInfo.Disks)[i], vserverName)])
    ELSE <<>>

LiveInfoSamples(c, server, vserverName, nickname) ==
    LET liveInfo == server.ServerLiveInfo
    IN IF ~IsNil(liveInfo)
       THEN LiveScalarSamples(c, Deref(liveInfo), vserverName)
            \o TrafficSamples(c, Deref(liveInfo), vserverName)
            \o StatusSamples(c, server, Deref(liveInfo), vserverName, nickname)
            \o StartTimeSamples(c, Deref(liveInfo), vserverName)
            \o InterfaceSamples(c, Deref(liveInfo), vserverName)
            \o DisksSamples(c, Deref(liveInfo), vserverName)
       ELSE <<>>

RescueSamples(c, server, vserverName) ==
    LET rescue == IF ~IsNil(server.RescueSystemActive) /\ Deref(server.RescueSystemActive)
                  THEN 1 ELSE 0
    IN << MustNewConstMetric(c.rescueActive, rescue, <<vserverName, "">>) >>

\* ip_info: one sample per address entry whose address pointer is non-nil
RECURSIVE IpEntrySamples(_, _, _)
IpEntrySamples(c, entries, vserverName) ==
    IF entries = <<>> THEN <<>>
    ELSE (IF ~IsNil(Head(entries))
          THEN << MustNewConstMetric(c.ipInfo, 1, <<vserverName, Deref(Head(entries))>>) >>
          ELSE <<>>)
         \o IpEntrySamples(c, Tail(entries), vserverName)

IpInfoSamples(c, server, vserverName) ==
    (IF ~IsNil(server.Ipv4Addresses)
     THEN IpEntrySamples(c, Deref(server.Ipv4Addresses), vserverName) ELSE <<>>)
    \o (IF ~IsNil(server.Ipv6Addresses)
        THEN IpEntrySamples(c, Deref(server.Ipv6Addresses), vserverName) ELSE <<>>)

\* everything one loop iteration sends once the detail payload is in hand
ServerSamples(c, server, vserverName, nickname) ==
    ServerScalarSamples(c, server, vserverName)
    \o LiveInfoSamples(c, server, vserverName, nickname)
    \o RescueSamples(c, server, vserverName)
    \o IpInfoSamples(c, server, vserverName)

(***************************************************************************)
(* Strings that are parsed are sequences of one-character strings.         *)
(* strings.Replace(s, old, new, 1): the first occurrence only.             *)
(***************************************************************************)
Digits == <<"0", "1", "2", "3", "4", "5", "6", "7", "8", "9">>
IsDigit(ch1) == \E i \in 1..10 : Digits[i] = ch1
DigitVal(ch1) == (CHOOSE i \in 1..10 : Digits[i] = ch1) - 1

HasPrefixAt(str, old, i) ==
    /\ i + Len(old) - 1 <= Len(str)
    /\ SubSeq(str, i, i + Len(old) - 1) = old

Replace1(str, old, new) ==
    IF \E i \in 1..Len(str) : HasPrefixAt(str, old, i)
    THEN LET i == CHOOSE k \in 1..Len(str) :
                    /\ HasPrefixAt(str, old, k)
                    /\ \A j \in 1..(k - 1) : ~HasPrefixAt(str, old, j)
         IN SubSeq(str, 1, i - 1) \o new \o SubSeq(str, i + Len(old), Len(str))
    ELSE str

\* str2duration.ParseDuration: time.ParseDuration's grammar with the units d and
\* w added. Durations are counted in seconds; sign, fraction and sub-second units
\* do not occur in the strings the model feeds it.
UnitSeconds(u) ==
    CASE u = <<"s">> -> 1
      [] u = <<"m">> -> 60
      [] u = <<"h">> -> 3600
      [] u = <<"d">> -> 86400
      [] u = <<"w">> -> 604800
      [] OTHER -> -1

\* length of the longest prefix of str made of digits / of non-digits
RECURSIVE DigitPrefix(_)
DigitPrefix(str) ==
    IF str # <<>> /\ IsDigit(Head(str)) THEN 1 + DigitPrefix(Tail(str)) ELSE 0

RECURSIVE UnitPrefix(_)
UnitPrefix(str) ==
    IF str # <<>> /\ ~IsDigit(Head(str)) THEN 1 + UnitPrefix(Tail(str)) ELSE 0

RECURSIVE LeadingInt(_, _)
LeadingInt(str, acc) ==
    IF str = <<>> THEN acc ELSE LeadingInt(Tail(str), acc * 10 + DigitVal(Head(str)))

RECURSIVE ParseTerms(_, _)
ParseTerms(str, d) ==
    IF str = <<>> THEN [err |-> FALSE, d |-> d]
    ELSE LET n == DigitPrefix(str)
             rest == SubSeq(str, n + 1, Len(str))
             u == UnitPrefix(rest)
         IN IF n = 0 \/ u = 0 \/ UnitSeconds(SubSeq(rest, 1, u)) < 0
            THEN [err |-> TRUE, d |-> 0]
            ELSE ParseTerms(SubSeq(rest, u + 1, Len(rest)),
                            d + LeadingInt(SubSeq(str, 1, n), 0) * UnitSeconds(SubSeq(rest, 1, u)))

ParseDuration(str) ==
    IF str = <<"0">> THEN [err |-> FALSE, d |-> 0]
    ELSE IF str = <<>> THEN [err |-> TRUE, d |-> 0]
    ELSE ParseTerms(str, 0)

parseUptimeString(uptime) ==
    LET t1 == Replace1(uptime, <<" ", "d", "a", "y", "s", " ">>, <<"d">>)
        t2 == Replace1(t1, <<" ", "d", "a", "y", " ">>, <<"d">>)
        t3 == Replace1(t2, <<" ", "h", "o", "u", "r", "s", " ">>, <<"h">>)
        t4 == Replace1(t3, <<" ", "h", "o", "u", "r", " ">>, <<"h">>)
        t5 == Replace1(t4, <<" ", "m", "i", "n", "u", "t", "e", "s">>, <<"m">>)
        t6 == Replace1(t5, <<" ", "m", "i", "n", "u", "t", "e">>, <<"m">>)
    IN ParseDuration(t6)

(***************************************************************************)
(* SOAP collectors: mapping of one GetVServerInformation return value.     *)
(***************************************************************************)
WSTrafficSamples(c, info, vserver) ==
    LET cm == info.CurrentMonth
    IN << MustNewConstMetric(c.monthlyTrafficIn, cm.In * 1024 * 1024, <<vserver, cm.Month, cm.Year>>),
          MustNewConstMetric(c.monthlyTrafficOut, cm.Out * 1024 * 1024, <<vserver, cm.Month, cm.Year>>),
          MustNewConstMetric(c.monthlyTrafficTotal, cm.Total * 1024 * 1024, <<vserver, cm.Month, cm.Year>>) >>

WSStateSamples(c, info, vserver) ==
    << MustNewConstMetric(c.serverStatus, IF info.Status = "online" THEN 1 ELSE 0,
                          <<vserver, info.Status, info.VServerNickname>>),
       MustNewConstMetric(c.rescueActive, BoolGauge(info.RescueEnabled),
                          <<vserver, info.RescueEnabledMessage>>),
       MustNewConstMetric(c.rebootRecommended, BoolGauge(info.RebootRecommended),
                          <<vserver, info.RebootRecommendedMessage>>) >>

WSIpSamples(c, info, vserver) ==
    [i \in 1..Len(info.Ips) |-> MustNewConstMetric(c.ipInfo, 1, <<vserver, info.Ips[i]>>)]

\* the addresses of one list that pass the seenIPs test, and the map afterwards
RECURSIVE Unseen(_, _)
Unseen(ips, seenIPs) ==
    IF ips = <<>> THEN <<>>
    ELSE IF Head(ips) \in seenIPs THEN Unseen(Tail(ips), seenIPs)
    ELSE <<Head(ips)>> \o Unseen(Tail(ips), seenIPs \cup {Head(ips)})

\* src/pkg/metrics: one seenIPs map per interface, shared by both loops;
\* src/main.go: no map, every entry is sent.
IfaceAddrs(variant, iface) ==
    IF variant = "soap"
    THEN LET v4 == Unseen(iface.Ipv4IP, {})
         IN [ipv4 |-> v4, ipv6 |-> Unseen(iface.Ipv6IP, Range(iface.Ipv4IP))]
    ELSE [ipv4 |-> iface.Ipv4IP, ipv6 |-> iface.Ipv6IP]

WSIfaceSamples(c, variant, iface, vserver) ==
    LET throttled == BoolGauge(iface.TrafficThrottled)
        a == IfaceAddrs(variant, iface)
        S(ip, ipType) == MustNewConstMetric(c.ifaceThrottled, throttled,
              <<vserver, iface.Driver, iface.Id, ip, ipType, iface.Mac, iface.TrafficThrottledMessage>>)
    IN [i \in 1..Len(a.ipv4) |-> S(a.ipv4[i], "ipv4")]
       \o [i \in 1..Len(a.ipv6) |-> S(a.ipv6[i], "ipv6")]

WSDiskSamples(c, disk, vserver) ==
    << MustNewConstMetric(c.diskCapacity, disk.Capacity * 1024 * 1024 * 1024,
                          <<vserver, disk.Driver, disk.Name>>),
       MustNewConstMetric(c.diskUsed, disk.Used * 1024 * 1024 * 1024,
                          <<vserver, disk.Driver, disk.Name>>),
       MustNewConstMetric(c.diskOptimization, BoolGauge(disk.OptimizationRecommended),
                          <<vserver, disk.Driver, disk.Name, disk.OptimizationRecommendedMessage>>) >>

\* the samples of one loop iteration up to the uptime parse
WSServerSamples(c, variant, info, vserver) ==
    << MustNewConstMetric(c.cpuCores, info.CpuCores, <<vserver>>),
       MustNewConstMetric(c.memory, info.Memory * 1024 * 1024, <<vserver>>) >>
    \o WSTrafficSamples(c, info, vserver)
    \o WSStateSamples(c, info, vserver)
    \o WSIpSamples(c, info, vserver)
    \o Concat([i \in 1..Len(info.ServerInterfaces) |->
                 WSIfaceSamples(c, variant, info.ServerInterfaces[i], vserver)])
    \o Concat([i \in 1..Len(info.ServerDisks) |->
                 WSDiskSamples(c, info.ServerDisks[i], vserver)])

\* the start-time sample: sent whether or not the parse failed (uptime is then 0)
WSStartTimeSamples(c, info, vserver) ==
    << MustNewConstMetric(c.serverStartTime, now - parseUptimeString(info.Uptime).d, <<vserver>>) >>

(***************************************************************************)
(* The upstream API as one scrape sees it.  A REST call returns            *)
(* (response, err); JSON200 is the success payload pointer.                *)
(***************************************************************************)
CallErr == [err |-> TRUE, status |-> 0, JSON200 |-> None]
NoPayload == [err |-> FALSE, status |-> 503, JSON200 |-> None]
Ok200(payload) == [err |-> FALSE, status |-> 200, JSON200 |-> Some(payload)]

PingOutcomes ==
    { [err |-> TRUE, status |-> 0], [err |-> FALSE, status |-> 200],
      [err |-> FALSE, status |-> 503] }
PingOk == [err |-> FALSE, status |-> 200]

MaintenanceOutcomes ==
    {CallErr, NoPayload}
    \cup {Ok200([StartAt |-> st, FinishAt |-> fi]) : st \in OptOf({now + 60}), fi \in OptOf({now + 120})}

TaskOf(present, state) ==
    [Uuid |-> IF present THEN Some("uuid-1") ELSE None,
     Name |-> IF present THEN Some("reboot") ELSE None,
     State |-> state]
TaskEntries ==
    {TaskOf(pr, st) : pr \in BOOLEAN, st \in OptOf({TaskStatePENDING, TaskStateRUNNING, "FINISHED"})}
TaskOutcomes == {CallErr, NoPayload} \cup {Ok200(ts) : ts \in SeqsUpTo(TaskEntries, MaxTasks)}

\* entries of the server listing
BaseListed == [Id |-> Some(1), Name |-> Some("a"), Nickname |-> Some("nick")]
ListedEntries ==
    {[Id |-> id, Name |-> nm, Nickname |-> Some("nick")] :
        id \in OptOf({1}), nm \in OptOf({"a", "b"})}
    \cup {[BaseListed EXCEPT !.Nickname = None]}

\* server detail payloads
BaseIface ==
    [RxMonthlyInMiB |-> Some(1), TxMonthlyInMiB |-> Some(2),
     TrafficThrottled |-> Some(FALSE), Mac |-> Some("aa:bb"), Driver |-> Some("virtio"),
     SpeedInMBits |-> Some(1000), Ipv4Addresses |-> Some(<<"10.0.0.1">>),
     Ipv6LinkLocalAddresses |-> Some(<<"fe80::1">>),
     Ipv6NetworkPrefixes |-> Some(<<"2001:db8::/64">>)]

BaseDisk ==
    [Dev |-> Some("vda"), Driver |-> Some("scsi"),
     CapacityInMiB |-> Some(3), AllocationInMiB |-> Some(1)]

BaseLive ==
    [CpuCount |-> Some(4), CurrentServerMemoryInMiB |-> Some(8), MaxServerMemoryInMiB |-> Some(16),
     Autostart |-> Some(TRUE), Uefi |-> Some(FALSE), LatestQemu |-> Some(TRUE),
     ConfigChanged |-> Some(FALSE), Interfaces |-> Some(<<BaseIface>>),
     State |-> Some(RUNNING), UptimeInSeconds |-> Some(600),
     Disks |-> Some(<<BaseDisk>>), RequiredStorageOptimization |-> Some(NO)]

BaseServer ==
    [Disabled |-> Some(FALSE), MaxCpuCount |-> Some(16), DisksAvailableSpaceInMiB |-> Some(5),
     SnapshotAllowed |-> Some(TRUE), SnapshotCount |-> Some(2),
     ServerLiveInfo |-> Some(BaseLive), Architecture |-> Some("AMD64"),
     Site |-> Some([City |-> "Nuremberg"]), RescueSystemActive |-> Some(FALSE),
     Ipv4Addresses |-> Some(<<Some("10.0.0.1")>>), Ipv6Addresses |-> Some(<<Some("2001:db8::")>>)]

WithLive(live) == [BaseServer EXCEPT !.ServerLiveInfo = Some(live)]

ServerScalarPayloads ==
    {[BaseServer EXCEPT !.Disabled = d, !.MaxCpuCount = mc, !.DisksAvailableSpaceInMiB = da,
                        !.SnapshotAllowed = sa, !.SnapshotCount = sc, !.ServerLiveInfo = li] :
        d \in OptBool, mc \in OptOf({16}), da \in OptOf({5, 2048}), sa \in OptBool,
        sc \in OptOf({2}), li \in OptOf({BaseLive})}

ServerLabelPayloads ==
    {[BaseServer EXCEPT !.RescueSystemActive = r, !.Architecture = a, !.Site = si] :
        r \in OptBool, a \in OptOf({"AMD64"}), si \in OptOf({[City |-> "Nuremberg"]})}

ServerIpPayloads ==
    {[BaseServer EXCEPT !.Ipv4Addresses = v4, !.Ipv6Addresses = v6] :
        v4 \in OptOf(SeqsUpTo(OptOf({"10.0.0.1", "10.0.0.2"}), MaxIps)),
        v6 \in OptOf({<<None>>, <<Some("2001:db8::")>>, <<Some("10.0.0.1")>>})}

LiveNumberPayloads ==
    {WithLive([BaseLive EXCEPT !.CpuCount = cc, !.CurrentServerMemoryInMiB = cm,
                               !.MaxServerMemoryInMiB = mm, !.UptimeInSeconds = up, !.State = st]) :
        cc \in OptOf({4}), cm \in OptOf({8, 2048}), mm \in OptOf({16, 2048}),
        up \in OptOf({600}),
        st \in OptOf({RUNNING, "SHUTOFF"})}

LiveFlagPayloads ==
    {WithLive([BaseLive EXCEPT !.Autostart = a, !.Uefi = u, !.LatestQemu = q, !.ConfigChanged = cc]) :
        a \in OptBool, u \in OptBool, q \in OptBool, cc \in OptBool}

TrafficIfaces ==
    {[BaseIface EXCEPT !.RxMonthlyInMiB = rx, !.TxMonthlyInMiB = tx] :
        rx \in OptOf({1, 2}), tx \in OptOf({3})}
TrafficPayloads ==
    {WithLive([BaseLive EXCEPT !.Interfaces = ifs]) :
        ifs \in OptOf(SeqsUpTo(TrafficIfaces, MaxIfaces))}

IfaceAttrPayloads ==
    {WithLive([BaseLive EXCEPT !.Interfaces = Some(<<
        [BaseIface EXCEPT !.TrafficThrottled = t, !.Mac = m, !.Driver = d, !.SpeedInMBits = sp] >>)]) :
        t \in OptBool, m \in OptOf({"aa:bb"}), d \in OptOf({"virtio"}), sp \in OptOf({1000})}

AddrLists4 == OptOf(SeqsUpTo({"10.0.0.1", "10.0.0.2"}, MaxIps))
AddrLists6 == OptOf(SeqsUpTo({"fe80::1", "fe80::2"}, MaxIps))
IfaceAddrPayloads ==
    {WithLive([BaseLive EXCEPT !.Interfaces = Some(<<
        [BaseIface EXCEPT !.Ipv4Addresses = v4, !.Ipv6LinkLocalAddresses = ll,
                          !.Ipv6NetworkPrefixes = np] >>)]) :
        v4 \in AddrLists4, ll \in AddrLists6,
        np \in OptOf({<<"fe80::1">>, <<"2001:db8::/64">>})}

DiskEntries ==
    {[BaseDisk EXCEPT !.Dev = dv, !.CapacityInMiB = ca, !.AllocationInMiB = al] :
        dv \in OptOf({"vda"}), ca \in OptOf({3}), al \in OptOf({1})}
DiskPayloads ==
    {WithLive([BaseLive EXCEPT !.Disks = ds, !.RequiredStorageOptimization = ro]) :
        ds \in OptOf(SeqsUpTo(DiskEntries, MaxDisks)), ro \in OptOf({NO, "YES"})}

DetailPayloads ==
    ServerScalarPayloads \cup ServerLabelPayloads \cup ServerIpPayloads
    \cup LiveNumberPayloads \cup LiveFlagPayloads \cup TrafficPayloads
    \cup IfaceAttrPayloads \cup IfaceAddrPayloads \cup DiskPayloads

DetailOutcomes == {CallErr, NoPayload, Ok200(BaseServer)}

RestUpstream(ping, maint, servers, tasks, detail) ==
    [ping |-> ping, maint |-> maint, servers |-> servers, tasks |-> tasks, detail |-> detail]

\* every outcome of the first calls, over an empty or a one-server listing
RestControlWorlds ==
    {RestUpstream(p, m, sv, Ok200(<<>>), <<Ok200(BaseServer)>>) :
        p \in PingOutcomes, m \in MaintenanceOutcomes,
        sv \in {CallErr, NoPayload, Ok200(<<>>), Ok200(<<BaseListed>>)}}

\* every outcome of the task listing
RestTaskWorlds ==
    {RestUpstream(PingOk, NoPayload, Ok200(<<BaseListed>>), t, <<Ok200(BaseServer)>>) :
        t \in TaskOutcomes}

\* every listing of up to MaxServers servers, every detail call failing or not
RestListWorlds ==
    UNION {{RestUpstream(PingOk, NoPayload, Ok200(sv), Ok200(<<>>), dt) :
                sv \in [1..n -> ListedEntries], dt \in [1..n -> DetailOutcomes]} :
           n \in 1..MaxServers}

\* one server, every detail payload
RestFieldWorlds ==
    {RestUpstream(PingOk, NoPayload, Ok200(<<BaseListed>>), Ok200(<<>>), <<Ok200(d)>>) :
        d \in DetailPayloads}

\* a task listing that fails, over listings of two servers
RestTaskListWorlds ==
    {RestUpstream(PingOk, NoPayload,
                  Ok200(<<e1, [BaseListed EXCEPT !.Name = Some("b")]>>), t, <<d1, d2>>) :
        e1 \in {BaseListed, [BaseListed EXCEPT !.Id = None]}, t \in {CallErr, NoPayload},
        d1 \in {CallErr, Ok200(BaseServer)}, d2 \in {CallErr, Ok200(BaseServer)}}

RestWorlds == RestControlWorlds \cup RestTaskWorlds \cup RestListWorlds \cup RestFieldWorlds
              \cup RestTaskListWorlds

(***************************************************************************)
(* The SOAP service as one scrape sees it.  A call returns (response, err) *)
(* with response a pointer; Return_ is a slice (GetVServers) or a pointer  *)
(* (GetVServerInformation).                                                *)
(***************************************************************************)
WSErr == [err |-> TRUE, resp |-> None]
WSErrWithResponse(r) == [err |-> TRUE, resp |-> Some(r)]
WSOk(r) == [err |-> FALSE, resp |-> Some(r)]

GetVServersOutcomes ==
    {WSErr, WSErrWithResponse([Return_ |-> <<>>])}
    \cup {WSOk([Return_ |-> vs]) : vs \in SeqsUpTo({"a", "b"}, MaxServers)}

UptimeWord(n, singular, plural) ==
    IF n = 1 THEN singular ELSE plural

\* "<d> day(s) <h> hour(s) <m> minute(s)", each part optional, parts joined by " "
UptimePart(n, singular, plural) ==
    IF n = 0 THEN <<>> ELSE << <<Digits[n + 1], " ">> \o UptimeWord(n, singular, plural) >>

RECURSIVE JoinSpace(_)
JoinSpace(parts) ==
    IF parts = <<>> THEN <<>>
    ELSE IF Len(parts) = 1 THEN Head(parts)
    ELSE Head(parts) \o <<" ">> \o JoinSpace(Tail(parts))

UptimeString(d, h, m) ==
    JoinSpace(UptimePart(d, <<"d", "a", "y">>, <<"d", "a", "y", "s">>)
              \o UptimePart(h, <<"h", "o", "u", "r">>, <<"h", "o", "u", "r", "s">>)
              \o UptimePart(m, <<"m", "i", "n", "u", "t", "e">>, <<"m", "i", "n", "u", "t", "e", "s">>))

UptimeStrings ==
    {UptimeString(d, h, m) : d \in {0, 1, 3}, h \in {0, 1, 4}, m \in {0, 1, 5}}
    \cup {<<"0">>, <<"u", "p">>}

BaseWSIface ==
    [TrafficThrottled |-> FALSE, Driver |-> "virtio", Id |-> "if0", Mac |-> "aa:bb",
     TrafficThrottledMessage |-> "", Ipv4IP |-> <<"10.0.0.1">>, Ipv6IP |-> <<"2001:db8::1">>]

BaseWSDisk ==
    [Capacity |-> 1, Used |-> 1, Driver |-> "scsi", Name |-> "vda",
     OptimizationRecommended |-> FALSE, OptimizationRecommendedMessage |-> ""]

BaseInfo ==
    [CpuCores |-> 4, Memory |-> 8,
     CurrentMonth |-> [In |-> 1, Out |-> 2, Total |-> 3, Month |-> "1", Year |-> "2022"],
     Status |-> "online", VServerNickname |-> "nick",
     RescueEnabled |-> FALSE, RescueEnabledMessage |-> "",
     RebootRecommended |-> FALSE, RebootRecommendedMessage |-> "",
     Ips |-> <<"10.0.0.1">>, ServerInterfaces |-> <<BaseWSIface>>,
     ServerDisks |-> <<BaseWSDisk>>,
     Uptime |-> UptimeString(3, 4, 5)]

\* the zero value of the struct
ZeroInfo ==
    [CpuCores |-> 0, Memory |-> 0,
     CurrentMonth |-> [In |-> 0, Out |-> 0, Total |-> 0, Month |-> "0", Year |-> "0"],
     Status |-> "", VServerNickname |-> "",
     RescueEnabled |-> FALSE, RescueEnabledMessage |-> "",
     RebootRecommended |-> FALSE, RebootRecommendedMessage |-> "",
     Ips |-> <<>>, ServerInterfaces |-> <<>>, ServerDisks |-> <<>>, Uptime |-> <<>>]

WSTrafficInfos ==
    {[BaseInfo EXCEPT !.CurrentMonth = [In |-> i, Out |-> o, Total |-> t, Month |-> "1", Year |-> "2022"]] :
        i \in {0, 1}, o \in {0, 2}, t \in {0, 1, 2, 3}}

WSStateInfos ==
    {[BaseInfo EXCEPT !.Status = st, !.RescueEnabled = r, !.RebootRecommended = rb] :
        st \in {"online", "offline"}, r \in BOOLEAN, rb \in BOOLEAN}

\* the service lists IPv4 literals in Ipv4IP and IPv6 literals in Ipv6IP
WSAddrLists4 == SeqsUpTo({"10.0.0.1", "10.0.0.2"}, MaxIps)
WSAddrLists6 == SeqsUpTo({"2001:db8::1", "2001:db8::2"}, MaxIps)
WSIfaceInfos ==
    {[BaseInfo EXCEPT !.ServerInterfaces = <<[BaseWSIface EXCEPT !.TrafficThrottled = t,
                                                 !.Ipv4IP = v4, !.Ipv6IP = v6]>>, !.Ips = v4] :
        t \in BOOLEAN, v4 \in WSAddrLists4, v6 \in WSAddrLists6}

WSDiskInfos ==
    {[BaseInfo EXCEPT !.ServerDisks = ds] :
        ds \in SeqsUpTo({BaseWSDisk, [BaseWSDisk EXCEPT !.Name = "vdb", !.Used = 0, !.OptimizationRecommended = TRUE]},
                        MaxDisks)}

WSUptimeInfos == {[BaseInfo EXCEPT !.Uptime = u] : u \in UptimeStrings}

WSInfos == {ZeroInfo} \cup WSTrafficInfos \cup WSStateInfos \cup WSIfaceInfos
           \cup WSDiskInfos \cup WSUptimeInfos

InfoOutcomes ==
    {WSErr, WSErrWithResponse([Return_ |-> Some(ZeroInfo)]),
     WSOk([Return_ |-> None]), WSOk([Return_ |-> Some(BaseInfo)])}

WSUpstream(vservers, info) == [vservers |-> vservers, info |-> info]

\* a failing listing
WSFailWorlds ==
    {WSUpstream(l, <<>>) : l \in {WSErr, WSErrWithResponse([Return_ |-> <<>>])}}

\* every listing of up to MaxServers servers, every information call failing or not
WSListWorlds ==
    UNION {{WSUpstream(WSOk([Return_ |-> vs]), inf) :
                vs \in [1..n -> {"a", "b"}], inf \in [1..n -> InfoOutcomes]} :
           n \in 0..MaxServers}

\* one server, every information payload
WSFieldWorlds ==
    {WSUpstream(WSOk([Return_ |-> <<"a">>]), <<WSOk([Return_ |-> Some(i)])>>) : i \in WSInfos}

WSWorlds == WSFailWorlds \cup WSListWorlds \cup WSFieldWorlds

Worlds(v) == IF v = "rest" THEN RestWorlds ELSE WSWorlds

(***************************************************************************)
(* State                                                                   *)
(***************************************************************************)
VARIABLES
    variant,      \* which collector is running
    collector,    \* the collector object (descriptors, client, logger)
    upstream,     \* what the upstream API answers during this run
    pc,           \* position of Collect(): idle, maint, servers, tasks, loop, done, panic
    ch,           \* samples sent on the metric channel by the running Collect()
    log,          \* error messages logged by the running Collect()
    calls,        \* upstream requests issued by the running Collect()
    listing,      \* the server listing the loop ranges over
    idx,          \* loop position (1-based) in listing
    described,    \* descriptors sent by the last Describe(), <<>> before the first
    proc,         \* the process: position of main(), its environment, log and exit code
    inv           \* concurrent Collect() invocations, at the grain of requests

(***************************************************************************)
(* The process around the collector.  main() reads its flags, builds the   *)
(* logger and the collector, registers it, builds the landing page and     *)
(* listens.  env holds the flags and what the environment will answer.     *)
(***************************************************************************)
MainEnvs ==
    [loginName : {"", "user"}, password : {"", "secret"},
     logLevel : {"debug", "info", "warn", "error"},
     landingErr : BOOLEAN, bindErr : BOOLEAN]

\* level.NewFilter(logger, level.Allow(level.ParseDefault(*logLevel, level.InfoValue())))
LevelAllows(logLevel, lvl) ==
    CASE lvl = "error" -> TRUE
      [] lvl = "info" -> logLevel \in {"debug", "info"}
      [] OTHER -> FALSE

ProcAt(env, at) == [pc |-> at, env |-> env, log |-> <<>>, serving |-> FALSE, exit |-> None]

\* a process that came up and is serving scrapes
ProcServing ==
    [ProcAt([loginName |-> "user", password |-> "secret", logLevel |-> "info",
             landingErr |-> FALSE, bindErr |-> FALSE], "serving")
       EXCEPT !.serving = TRUE, !.log = <<"Starting SCP Exporter">>]

(***************************************************************************)
(* Concurrent Collect() invocations of the REST collector, one record of   *)
(* locals each.                                                            *)
(***************************************************************************)
Invocations == {"g1", "g2"}

InvLocals ==
    [pc |-> "idle", await |-> FALSE, ch |-> <<>>, log |-> <<>>, calls |-> <<>>,
     listing |-> <<>>, idx |-> 0, inflight |-> {}]

InvIdle == [g \in Invocations |-> InvLocals]

vars == <<variant, collector, upstream, pc, ch, log, calls, listing, idx, described, proc, inv>>

Init ==
    /\ variant \in Variants
    /\ collector = NewCollector(variant)
    /\ upstream \in Worlds(variant)
    /\ pc = "idle"
    /\ ch = <<>>
    /\ log = <<>>
    /\ calls = <<>>
    /\ listing = <<>>
    /\ idx = 0
    /\ described = <<>>
    /\ proc = ProcServing
    /\ inv = InvIdle

(***************************************************************************)
(* Helpers of the steps                                                    *)
(***************************************************************************)
Call(op, i) == [op |-> op, server |-> i]

\* a method call on the logger dereferences it
LoggerIsNil == IsNil(collector.logger)

\* an apiUp that looks at the transport error alone
ApiUpValueErrOnly(pResp) == IF ~pResp.err THEN 1 ELSE 0

\* apiUp: 1 only when err == nil and the status is 200
ApiUpValue(pResp) == IF ~pResp.err /\ pResp.status = StatusOK THEN 1 ELSE 0

\* a maintenance mapping that tests the finish field inside the test of the start field
MaintenanceSamplesNested(c, mResp) ==
    IF mResp.err \/ IsNil(mResp.JSON200) \/ IsNil(Deref(mResp.JSON200).StartAt) THEN <<>>
    ELSE << MustNewConstMetric(c.maintenanceStart, Deref(Deref(mResp.JSON200).StartAt), <<>>) >>
         \o (IF ~IsNil(Deref(mResp.JSON200).FinishAt)
             THEN << MustNewConstMetric(c.maintenanceFinish, Deref(Deref(mResp.JSON200).FinishAt), <<>>) >>
             ELSE <<>>)

MaintenanceSamples(c, mResp) ==
    IF mResp.err THEN <<>>
    ELSE IF ~IsNil(mResp.JSON200)
    THEN (IF ~IsNil(Deref(mResp.JSON200).StartAt)
          THEN << MustNewConstMetric(c.maintenanceStart, Deref(Deref(mResp.JSON200).StartAt), <<>>) >>
          ELSE <<>>)
         \o (IF ~IsNil(Deref(mResp.JSON200).FinishAt)
             THEN << MustNewConstMetric(c.maintenanceFinish, Deref(Deref(mResp.JSON200).FinishAt), <<>>) >>
             ELSE <<>>)
    ELSE <<>>

\* a count that takes every task for a pending one
PendingCountAll(tasks) == Len(tasks)

RECURSIVE PendingCount(_)
PendingCount(tasks) ==
    IF tasks = <<>> THEN 0
    ELSE (IF ~IsNil(Head(tasks).State)
             /\ Deref(Head(tasks).State) \in {TaskStatePENDING, TaskStateRUNNING}
          THEN 1 ELSE 0)
         + PendingCount(Tail(tasks))

TaskSamples(c, tResp) ==
    IF tResp.err THEN <<>>
    ELSE IF ~IsNil(tResp.JSON200)
    THEN LET tasks == Deref(tResp.JSON200)
         IN [i \in 1..Len(tasks) |->
                MustNewConstMetric(c.taskInfo, 1,
                    <<StrOrEmpty(tasks[i].Uuid), StrOrEmpty(tasks[i].Name), StrOrEmpty(tasks[i].State)>>)]
            \o << MustNewConstMetric(c.tasksPending, PendingCount(tasks), <<>>) >>
    ELSE <<>>

\* a Collect() that asks for the tasks before the server listing
AfterMaintenanceTasksFirst == "tasks"

\* where Collect() goes after each of its first calls
AfterPing == "maint"
AfterMaintenance == "servers"
AfterServers == "tasks"
AfterTasks == "loop"

(***************************************************************************)
(* Describe(): may be called at any time while the process lives.          *)
(***************************************************************************)
\* a Describe() that sends only the descriptors of what the running scrape sent
DescribeOutputSent ==
    LET all == IF variant = "rest" THEN DescribeRest(collector) ELSE DescribeWS(collector)
        Sent(d) == \E i \in 1..Len(ch) : ch[i].fqName = d.fqName
    IN SelectSeq(all, Sent)

DescribeOutput == IF variant = "rest" THEN DescribeRest(collector) ELSE DescribeWS(collector)

Describe ==
    /\ pc # "panic"
    /\ described' = DescribeOutput
    /\ UNCHANGED <<proc, inv, variant, collector, upstream, pc, ch, log, calls, listing, idx>>

(***************************************************************************)
(* REST Collect(), one step per upstream call                              *)
(***************************************************************************)
GetApiPing ==
    /\ variant = "rest"
    /\ pc = "idle"
    /\ calls' = <<Call("ping", 0)>>
    /\ ch' = << MustNewConstMetric(collector.apiUp, ApiUpValue(upstream.ping), <<>>) >>
    /\ log' = <<>>
    /\ pc' = AfterPing
    /\ UNCHANGED <<proc, inv, variant, collector, upstream, listing, idx, described>>

GetMaintenance ==
    /\ variant = "rest"
    /\ pc = "maint"
    /\ calls' = Append(calls, Call("maintenance", 0))
    /\ log' = IF upstream.maint.err
              THEN Append(log, "Unable to get maintenance information") ELSE log
    /\ ch' = ch \o MaintenanceSamples(collector, upstream.maint)
    /\ pc' = AfterMaintenance
    /\ UNCHANGED <<proc, inv, variant, collector, upstream, listing, idx, described>>

\* a listing step that logs the failure and goes on, as over an empty listing
GetServersNoReturn ==
    /\ variant = "rest"
    /\ pc = "servers"
    /\ calls' = Append(calls, Call("servers", 0))
    /\ IF upstream.servers.err \/ IsNil(upstream.servers.JSON200)
       THEN /\ log' = Append(log, "Unable to get servers")
            /\ listing' = <<>>
       ELSE /\ log' = log
            /\ listing' = Deref(upstream.servers.JSON200)
    /\ pc' = AfterServers
    /\ UNCHANGED <<proc, inv, variant, collector, upstream, ch, idx, described>>

GetServers ==
    /\ variant = "rest"
    /\ pc = "servers"
    /\ calls' = Append(calls, Call("servers", 0))
    /\ IF upstream.servers.err \/ IsNil(upstream.servers.JSON200)
       THEN /\ log' = Append(log, "Unable to get servers")
            /\ pc' = "done"
            /\ listing' = listing
       ELSE /\ log' = log
            /\ pc' = AfterServers
            /\ listing' = Deref(upstream.servers.JSON200)
    /\ UNCHANGED <<proc, inv, variant, collector, upstream, ch, idx, described>>

GetTasks ==
    /\ variant = "rest"
    /\ pc = "tasks"
    /\ calls' = Append(calls, Call("tasks", 0))
    /\ log' = IF upstream.tasks.err THEN Append(log, "Unable to get tasks") ELSE log
    /\ ch' = ch \o TaskSamples(collector, upstream.tasks)
    /\ pc' = AfterTasks
    /\ idx' = 1
    /\ UNCHANGED <<proc, inv, variant, collector, upstream, listing, described>>

\* one iteration of the loop over the listing; *serverID panics on a nil Id
GetServerDetail ==
    /\ variant = "rest"
    /\ pc = "loop"
    /\ idx <= Len(listing)
    /\ LET s == listing[idx]
           vserverName == StrOrEmpty(s.Name)
           nickname == StrOrEmpty(s.Nickname)
           infoResp == upstream.detail[idx]
       IN IF IsNil(s.Id)
          THEN /\ pc' = "panic"
               /\ UNCHANGED <<ch, log, calls, idx>>
          ELSE /\ calls' = Append(calls, Call("detail", idx))
               /\ pc' = "loop"
               /\ idx' = idx + 1
               /\ IF infoResp.err \/ IsNil(infoResp.JSON200)
                  THEN /\ log' = Append(log, "Unable to get Server Information")
                       /\ ch' = ch
                  ELSE /\ log' = log
                       /\ ch' = ch \o ServerSamples(collector, Deref(infoResp.JSON200),
                                                    vserverName, nickname)
    /\ UNCHANGED <<proc, inv, variant, collector, upstream, listing, described>>

(***************************************************************************)
(* SOAP Collect() (src/pkg/metrics and src/main.go)                        *)
(***************************************************************************)
\* GetVServers: the error is logged and the response is used all the same
GetVServers ==
    /\ variant \in SoapVariants
    /\ pc = "idle"
    /\ calls' = <<Call("servers", 0)>>
    /\ ch' = <<>>
    /\ LET r == upstream.vservers
       IN IF r.err /\ LoggerIsNil
          THEN /\ log' = <<>>
               /\ pc' = "panic"
               /\ UNCHANGED <<listing, idx>>
          ELSE /\ log' = IF r.err THEN <<"Unable to get servers">> ELSE <<>>
               /\ IF IsNil(r.resp)
                  THEN /\ pc' = "panic"
                       /\ UNCHANGED <<listing, idx>>
                  ELSE /\ pc' = "loop"
                       /\ listing' = Deref(r.resp).Return_
                       /\ idx' = 1
    /\ UNCHANGED <<proc, inv, variant, collector, upstream, described>>

\* one iteration: the error is logged and the response is used all the same;
\* a failed uptime parse is logged and the start time is sent with uptime 0
GetVServerInformation ==
    /\ variant \in SoapVariants
    /\ pc = "loop"
    /\ idx <= Len(listing)
    /\ calls' = Append(calls, Call("detail", idx))
    /\ LET vserver == listing[idx]
           r == upstream.info[idx]
           log1 == IF r.err THEN Append(log, "Unable to get Server Information") ELSE log
       IN IF r.err /\ LoggerIsNil
          THEN /\ pc' = "panic"
               /\ UNCHANGED <<ch, log, idx>>
          ELSE IF IsNil(r.resp) \/ IsNil(Deref(r.resp).Return_)
          THEN /\ pc' = "panic"
               /\ log' = log1
               /\ UNCHANGED <<ch, idx>>
          ELSE LET info == Deref(Deref(r.resp).Return_)
                   sent == ch \o WSServerSamples(collector, variant, info, vserver)
                   parsed == parseUptimeString(info.Uptime)
               IN IF parsed.err /\ LoggerIsNil
                  THEN /\ pc' = "panic"
                       /\ ch' = sent
                       /\ log' = log1
                       /\ idx' = idx
                  ELSE /\ pc' = "loop"
                       /\ ch' = sent \o WSStartTimeSamples(collector, info, vserver)
                       /\ log' = IF parsed.err THEN Append(log1, "Unable to parse uptime") ELSE log1
                       /\ idx' = idx + 1
    /\ UNCHANGED <<proc, inv, variant, collector, upstream, listing, described>>

(***************************************************************************)
(* End of the loop, and return to the caller                               *)
(***************************************************************************)
EndLoop ==
    /\ pc = "loop"
    /\ idx > Len(listing)
    /\ pc' = "done"
    /\ UNCHANGED <<proc, inv, variant, collector, upstream, ch, log, calls, listing, idx, described>>

\* Collect() has returned: its locals are gone and the channel is drained
Return ==
    /\ pc = "done"
    /\ pc' = "idle"
    /\ ch' = <<>>
    /\ log' = <<>>
    /\ calls' = <<>>
    /\ listing' = <<>>
    /\ idx' = 0
    /\ UNCHANGED <<proc, inv, variant, collector, upstream, described>>

Next ==
    \/ Describe
    \/ GetApiPing
    \/ GetMaintenance
    \/ GetServers
    \/ GetTasks
    \/ GetServerDetail
    \/ GetVServers
    \/ GetVServerInformation
    \/ EndLoop
    \/ Return

Spec == Init /\ [][Next]_vars

\* the scrapes of the REST collector alone
InitRest == Init /\ variant = "rest"

NextRest ==
    \/ Describe
    \/ GetApiPing
    \/ GetMaintenance
    \/ GetServers
    \/ GetTasks
    \/ GetServerDetail
    \/ EndLoop
    \/ Return

\* every client call returns and the registry drains ch: the goroutine of
\* Collect() is never blocked forever, so a step that is possible is taken
FairSpec == InitRest /\ [][NextRest]_vars /\ WF_vars(NextRest)

(***************************************************************************)
(* main() of src/main.go, one step per stage of the startup                *)
(***************************************************************************)
InitMain ==
    /\ variant = "legacy"
    /\ collector = NewCollector("legacy")
    /\ upstream = WSUpstream(WSOk([Return_ |-> <<>>]), <<>>)
    /\ pc = "idle"
    /\ ch = <<>>
    /\ log = <<>>
    /\ calls = <<>>
    /\ listing = <<>>
    /\ idx = 0
    /\ described = <<>>
    /\ proc \in {ProcAt(env, "start") : env \in MainEnvs}
    /\ inv = InvIdle

\* kingpin.Parse(), the logger, the "Starting" message, the client and the collector
MainStart ==
    /\ proc.pc = "start"
    /\ proc' = [proc EXCEPT !.pc = "register",
                            !.log = IF LevelAllows(proc.env.logLevel, "info")
                                    THEN Append(@, "Starting SCP Exporter") ELSE @]
    /\ UNCHANGED <<variant, collector, upstream, pc, ch, log, calls, listing, idx, described, inv>>

\* MustRegister(scpCollector): the registry calls Describe()
MainRegister ==
    /\ proc.pc = "register"
    /\ proc' = [proc EXCEPT !.pc = "landing"]
    /\ described' = DescribeOutput
    /\ UNCHANGED <<variant, collector, upstream, pc, ch, log, calls, listing, idx, inv>>

\* web.NewLandingPage: a failure is logged, the handlers are installed all the same
MainLanding ==
    /\ proc.pc = "landing"
    /\ proc' = [proc EXCEPT !.pc = "listen",
                            !.log = IF proc.env.landingErr
                                    THEN Append(@, "failed to create landing page") ELSE @]
    /\ UNCHANGED <<variant, collector, upstream, pc, ch, log, calls, listing, idx, described, inv>>

\* web.ListenAndServe: an error is logged and the process exits with 1
MainListen ==
    /\ proc.pc = "listen"
    /\ proc' = IF proc.env.bindErr
               THEN [proc EXCEPT !.pc = "exited", !.exit = Some(1),
                                 !.log = Append(@, "Run into bad state")]
               ELSE [proc EXCEPT !.pc = "serving", !.serving = TRUE]
    /\ UNCHANGED <<variant, collector, upstream, pc, ch, log, calls, listing, idx, described, inv>>

NextMain ==
    \/ MainStart
    \/ MainRegister
    \/ MainLanding
    \/ MainListen

MainSpec == InitMain /\ [][NextMain]_vars

(***************************************************************************)
(* Concurrent scrapes of the REST collector: every invocation of Collect() *)
(* runs the same code on its own locals and its own channel; a request is  *)
(* issued in one step and its response handled in a later one.  A panic    *)
(* ends the process, and so every invocation.                              *)
(***************************************************************************)
ConcWorlds ==
    RestControlWorlds
    \cup {RestUpstream(PingOk, Ok200([StartAt |-> Some(now + 60), FinishAt |-> None]),
                       Ok200(<<e1, e2>>), Ok200(<<TaskOf(TRUE, Some(TaskStateRUNNING))>>),
                       <<d1, d2>>) :
            e1 \in {BaseListed, [BaseListed EXCEPT !.Id = None]},
            e2 \in {[BaseListed EXCEPT !.Name = Some("b")], [BaseListed EXCEPT !.Id = None]},
            d1 \in {CallErr, Ok200(BaseServer)}, d2 \in {CallErr, Ok200(BaseServer)}}

InitConc ==
    /\ variant = "rest"
    /\ collector = NewCollector("rest")
    /\ upstream \in ConcWorlds
    /\ pc = "idle"
    /\ ch = <<>>
    /\ log = <<>>
    /\ calls = <<>>
    /\ listing = <<>>
    /\ idx = 0
    /\ described = <<>>
    /\ proc = ProcServing
    /\ inv = InvIdle

Crashed == \E g \in Invocations : inv[g].pc = "panic"

\* the request made at each position of Collect()
OpAt(at) ==
    CASE at = "idle" -> "ping"
      [] at = "maint" -> "maintenance"
      [] at = "servers" -> "servers"
      [] at = "tasks" -> "tasks"
      [] at = "loop" -> "detail"

\* a Collect() that fires the ping and moves on without its answer
AfterIssueAsync(at) ==
    IF at = "idle" THEN [pc |-> AfterPing, await |-> FALSE] ELSE [pc |-> at, await |-> TRUE]

\* the client call blocks: Collect() stays at the call until the response is there
AfterIssue(at) == [pc |-> at, await |-> TRUE]

\* a Collect() whose samples go through a buffer shared by the invocations
EmitShared(g, samples) == inv[CHOOSE o \in Invocations : o # g].ch \o samples

\* a Collect() that puts what it sends in front of what it has sent
EmitFront(g, samples) == samples \o inv[g].ch

\* ch <- sample: ch is the parameter of this invocation
Emit(g, samples) == inv[g].ch \o samples

Issue(g) ==
    /\ ~Crashed
    /\ ~inv[g].await
    /\ inv[g].pc \in {"idle", "maint", "servers", "tasks", "loop"}
    /\ inv[g].pc = "loop" => inv[g].idx <= Len(inv[g].listing)
    /\ LET l == inv[g]
           call == Call(OpAt(l.pc), IF l.pc = "loop" THEN l.idx ELSE 0)
       IN inv' = [inv EXCEPT ![g] =
                     IF l.pc = "loop" /\ IsNil(l.listing[l.idx].Id)
                     THEN [l EXCEPT !.pc = "panic"]
                     ELSE [l EXCEPT !.pc = AfterIssue(l.pc).pc,
                                    !.await = AfterIssue(l.pc).await,
                                    !.calls = Append(@, call),
                                    !.inflight = @ \cup {call}]]
    /\ UNCHANGED <<variant, collector, upstream, pc, ch, log, calls, listing, idx, described, proc>>

\* the locals of invocation g once the response it waits for is handled
Handled(g) ==
    LET l == inv[g]
        c == collector
    IN CASE l.pc = "idle" ->
              [l EXCEPT !.pc = AfterPing,
                        !.ch = Emit(g, << MustNewConstMetric(c.apiUp, ApiUpValue(upstream.ping), <<>>) >>)]
         [] l.pc = "maint" ->
              [l EXCEPT !.pc = AfterMaintenance,
                        !.log = IF upstream.maint.err
                                THEN Append(@, "Unable to get maintenance information") ELSE @,
                        !.ch = Emit(g, MaintenanceSamples(c, upstream.maint))]
         [] l.pc = "servers" ->
              IF upstream.servers.err \/ IsNil(upstream.servers.JSON200)
              THEN [l EXCEPT !.pc = "done", !.log = Append(@, "Unable to get servers")]
              ELSE [l EXCEPT !.pc = AfterServers, !.listing = Deref(upstream.servers.JSON200)]
         [] l.pc = "tasks" ->
              [l EXCEPT !.pc = AfterTasks, !.idx = 1,
                        !.log = IF upstream.tasks.err THEN Append(@, "Unable to get tasks") ELSE @,
                        !.ch = Emit(g, TaskSamples(c, upstream.tasks))]
         [] l.pc = "loop" ->
              LET infoResp == upstream.detail[l.idx]
                  s == l.listing[l.idx]
              IN IF infoResp.err \/ IsNil(infoResp.JSON200)
                 THEN [l EXCEPT !.idx = @ + 1,
                                !.log = Append(@, "Unable to get Server Information")]
                 ELSE [l EXCEPT !.idx = @ + 1,
                                !.ch = Emit(g, ServerSamples(c, Deref(infoResp.JSON200),
                                                             StrOrEmpty(s.Name), StrOrEmpty(s.Nickname)))]

Receive(g) ==
    /\ ~Crashed
    /\ inv[g].await
    /\ inv' = [inv EXCEPT ![g] =
                  [Handled(g) EXCEPT !.await = FALSE,
                                     !.inflight = @ \ {inv[g].calls[Len(inv[g].calls)]}]]
    /\ UNCHANGED <<variant, collector, upstream, pc, ch, log, calls, listing, idx, described, proc>>

\* the range loop is over: Collect() returns
Finish(g) ==
    /\ ~Crashed
    /\ inv[g].pc = "loop"
    /\ ~inv[g].await
    /\ inv[g].idx > Len(inv[g].listing)
    /\ inv' = [inv EXCEPT ![g].pc = "done"]
    /\ UNCHANGED <<variant, collector, upstream, pc, ch, log, calls, listing, idx, described, proc>>

NextConc ==
    \/ \E g \in Invocations : Issue(g)
    \/ \E g \in Invocations : Receive(g)
    \/ \E g \in Invocations : Finish(g)

ConcSpec == InitConc /\ [][NextConc]_vars

(***************************************************************************)
(* Vocabulary of the properties                                            *)
(***************************************************************************)
Running == pc \notin {"idle"}
Ended == pc \in {"done", "panic"}

Called(op) == \E i \in 1..Len(calls) : calls[i].op = op
DetailCalled(j) == \E i \in 1..Len(calls) : calls[i] = Call("detail", j)

\* a sample that carries a vserver label
IsPerServer(m) == m.labels # <<>> /\ m.fqName # "scp_task_info"

Count(q, Test(_)) == Cardinality({i \in 1..Len(q) : Test(q[i])})
IsSubSeqSet(samples, q) == \A i \in 1..Len(samples) : \E k \in 1..Len(q) : q[k] = samples[i]

\* the listing call of the variant failed with a transport error
ListingErr == IF variant = "rest" THEN upstream.servers.err ELSE upstream.vservers.err

\* the server listing the upstream answers with (<<>> when there is none)
UpstreamListing ==
    IF variant = "rest"
    THEN (IF ~upstream.servers.err /\ ~IsNil(upstream.servers.JSON200)
          THEN Deref(upstream.servers.JSON200) ELSE <<>>)
    ELSE (IF ~IsNil(upstream.vservers.resp) THEN Deref(upstream.vservers.resp).Return_ ELSE <<>>)

\* the detail call of the j-th listed server fails: transport error or no payload
DetailFails(j) ==
    IF variant = "rest"
    THEN upstream.detail[j].err \/ IsNil(upstream.detail[j].JSON200)
    ELSE \/ upstream.info[j].err
         \/ IsNil(upstream.info[j].resp)
         \/ IsNil(Deref(upstream.info[j].resp).Return_)

\* what Collect() is to send for the j-th listed server when its detail call succeeds
ExpectedServerSamples(j) ==
    IF variant = "rest"
    THEN ServerSamples(collector, Deref(upstream.detail[j].JSON200),
                       StrOrEmpty(UpstreamListing[j].Name), StrOrEmpty(UpstreamListing[j].Nickname))
    ELSE LET info == Deref(Deref(upstream.info[j].resp).Return_)
         IN WSServerSamples(collector, variant, info, UpstreamListing[j])
            \o WSStartTimeSamples(collector, info, UpstreamListing[j])

(***************************************************************************)
(* C1: when the server-listing call returns a transport error, Collect()   *)
(* ends without a panic, sends no per-server sample, and the error is      *)
(* logged.                                                                 *)
(***************************************************************************)
C1_ListingErrorOnlyLogged ==
    (Called("servers") /\ ListingErr) =>
        /\ pc # "panic"
        /\ pc = "done" \/ (pc = "loop" /\ idx > Len(listing))
        /\ \A i \in 1..Len(ch) : ~IsPerServer(ch[i])
        /\ \E i \in 1..Len(log) : log[i] = "Unable to get servers"

(***************************************************************************)
(* C2: when the detail call of exactly one of the N listed servers fails,  *)
(* the scrape still sends the per-server samples of each of the other      *)
(* N-1 servers, whatever the position of the failing one.                  *)
(***************************************************************************)
ExactlyOneDetailFails ==
    Cardinality({j \in 1..Len(UpstreamListing) : DetailFails(j)}) = 1

C2_SiblingsStillEmitted ==
    (Ended /\ Called("servers") /\ ExactlyOneDetailFails) =>
        \A j \in 1..Len(UpstreamListing) :
            ~DetailFails(j) => IsSubSeqSet(ExpectedServerSamples(j), ch)

(***************************************************************************)
(* C3: for an interface whose address lists hold a duplicate literal       *)
(* address, the interface_throttled samples of that interface hold each    *)
(* distinct (ip, ip_type) pair exactly once.  Stated for scrapes of one    *)
(* server with one interface, where every interface_throttled sample on    *)
(* the channel belongs to that interface.                                  *)
(***************************************************************************)
\* the address lists of the only interface of the only server, as <<ip, ip_type>> pairs
OnlyIfacePairs ==
    IF variant = "rest"
    THEN LET iface == Deref(Deref(Deref(upstream.detail[1].JSON200).ServerLiveInfo).Interfaces)[1]
             L(p) == IF IsNil(p) THEN <<>> ELSE Deref(p)
         IN [i \in 1..Len(L(iface.Ipv4Addresses)) |-> <<L(iface.Ipv4Addresses)[i], "ipv4">>]
            \o [i \in 1..Len(L(iface.Ipv6LinkLocalAddresses)) |-> <<L(iface.Ipv6LinkLocalAddresses)[i], "ipv6">>]
            \o [i \in 1..Len(L(iface.Ipv6NetworkPrefixes)) |-> <<L(iface.Ipv6NetworkPrefixes)[i], "ipv6">>]
    ELSE LET iface == Deref(Deref(upstream.info[1].resp).Return_).ServerInterfaces[1]
         IN [i \in 1..Len(iface.Ipv4IP) |-> <<iface.Ipv4IP[i], "ipv4">>]
            \o [i \in 1..Len(iface.Ipv6IP) |-> <<iface.Ipv6IP[i], "ipv6">>]

OneServerOneIface ==
    /\ Len(UpstreamListing) = 1
    /\ ~DetailFails(1)
    /\ IF variant = "rest"
       THEN LET server == Deref(upstream.detail[1].JSON200)
            IN /\ ~IsNil(server.ServerLiveInfo)
               /\ ~IsNil(Deref(server.ServerLiveInfo).Interfaces)
               /\ Len(Deref(Deref(server.ServerLiveInfo).Interfaces)) = 1
       ELSE Len(Deref(Deref(upstream.info[1].resp).Return_).ServerInterfaces) = 1

HasDuplicate(q) == \E i, k \in 1..Len(q) : i < k /\ q[i] = q[k]

ThrottledCount(pair) ==
    LET T(m) == /\ m.fqName = "scp_interface_throttled"
                /\ m.labels[4] = pair[1]
                /\ m.labels[5] = pair[2]
    IN Count(ch, T)

C3_DuplicateAddressesCollapsed ==
    (pc = "done" /\ OneServerOneIface /\ HasDuplicate(OnlyIfacePairs)) =>
        \A k \in 1..Len(OnlyIfacePairs) : ThrottledCount(OnlyIfacePairs[k]) = 1

(***************************************************************************)
(* C4: the monthlytraffic_total sample of a server equals the sum of the   *)
(* monthlytraffic_in and monthlytraffic_out samples sent for the same      *)
(* (vserver, month, year) labels.  Both collectors send in, out, total     *)
(* back to back, so the in and out samples of a total are the two before   *)
(* it.                                                                     *)
(***************************************************************************)
IsTotalAt(i) == ch[i].fqName = "scp_monthlytraffic_total_bytes"

TrafficTripleAt(i) ==
    /\ i >= 3
    /\ ch[i - 2].fqName = "scp_monthlytraffic_in_bytes"
    /\ ch[i - 1].fqName = "scp_monthlytraffic_out_bytes"
    /\ ch[i - 2].labels = ch[i].labels
    /\ ch[i - 1].labels = ch[i].labels

\* the claim as stated: for all inputs, in every collector
C4_TotalIsInPlusOut ==
    \A i \in 1..Len(ch) :
        IsTotalAt(i) => /\ TrafficTripleAt(i)
                        /\ ch[i].value = ch[i - 2].value + ch[i - 1].value

\* amended: the REST collector computes the total; the SOAP collectors republish
\* the upstream In, Out and Total fields
C4_TotalIsInPlusOutRest ==
    \A i \in 1..Len(ch) :
        IsTotalAt(i) =>
            /\ TrafficTripleAt(i)
            /\ variant = "rest" => ch[i].value = ch[i - 2].value + ch[i - 1].value
            /\ variant \in SoapVariants =>
                 \E j \in 1..Len(upstream.info) :
                    /\ ~IsNil(upstream.info[j].resp)
                    /\ ~IsNil(Deref(upstream.info[j].resp).Return_)
                    /\ LET cm == Deref(Deref(upstream.info[j].resp).Return_).CurrentMonth
                       IN /\ ch[i - 2].value = cm.In * 1024 * 1024
                          /\ ch[i - 1].value = cm.Out * 1024 * 1024
                          /\ ch[i].value = cm.Total * 1024 * 1024

\* a REST scrape that sent a total made of a non-zero in and a non-zero out
C4_Witness ==
    /\ variant = "rest"
    /\ pc = "done"
    /\ \E i \in 1..Len(ch) :
          /\ IsTotalAt(i)
          /\ TrafficTripleAt(i)
          /\ ch[i - 2].value > 0
          /\ ch[i - 1].value > 0
          /\ ch[i].value > ch[i - 2].value

(***************************************************************************)
(* C5: for each flag of disabled, autostart, uefi, latestQemu,             *)
(* configChanged, snapshotAllowed: when the field is absent and its parent *)
(* (the server, or the live info) is present, the scrape sends a sample of *)
(* the flag's gauge valued 0.                                              *)
(***************************************************************************)
HasSample(fqName, labels, value) ==
    \E i \in 1..Len(ch) : ch[i] = [fqName |-> fqName, labels |-> labels, value |-> value]

C5_AbsentFlagIsZero ==
    (variant = "rest" /\ pc = "done") =>
        \A j \in 1..Len(UpstreamListing) :
            ~DetailFails(j) =>
                LET server == Deref(upstream.detail[j].JSON200)
                    name == <<StrOrEmpty(UpstreamListing[j].Name)>>
                    live == Deref(server.ServerLiveInfo)
                IN /\ IsNil(server.Disabled) => HasSample("scp_disabled", name, 0)
                   /\ IsNil(server.SnapshotAllowed) => HasSample("scp_snapshot_allowed", name, 0)
                   /\ ~IsNil(server.ServerLiveInfo) =>
                        /\ IsNil(live.Autostart) => HasSample("scp_autostart_enabled", name, 0)
                        /\ IsNil(live.Uefi) => HasSample("scp_uefi_enabled", name, 0)
                        /\ IsNil(live.LatestQemu) => HasSample("scp_latest_qemu", name, 0)
                        /\ IsNil(live.ConfigChanged) => HasSample("scp_config_changed", name, 0)

(***************************************************************************)
(* C6: when the detail response lacks an optional numeric field, no sample *)
(* of the gauge derived from it is sent (in particular none valued 0).     *)
(* Stated for scrapes of one server, where every per-server sample on the  *)
(* channel belongs to that server; a per-interface or per-disk field       *)
(* counts as missing when every interface or disk lacks it.                *)
(***************************************************************************)
NoSample(fqName) == \A i \in 1..Len(ch) : ch[i].fqName # fqName

\* the server-level and live-info-level fields
C6_ScalarPart(server) ==
    /\ IsNil(server.MaxCpuCount) => NoSample("scp_cpu_max_count")
    /\ IsNil(server.DisksAvailableSpaceInMiB) => NoSample("scp_disks_available_space_bytes")
    /\ IsNil(server.SnapshotCount) => NoSample("scp_snapshot_count")
    /\ ~IsNil(server.ServerLiveInfo) =>
         LET live == Deref(server.ServerLiveInfo)
         IN /\ IsNil(live.CpuCount) => NoSample("scp_cpu_cores")
            /\ IsNil(live.CurrentServerMemoryInMiB) => NoSample("scp_memory_bytes")
            /\ IsNil(live.MaxServerMemoryInMiB) => NoSample("scp_memory_max_bytes")
            /\ IsNil(live.UptimeInSeconds) => NoSample("scp_server_start_time_seconds")

AllLack(list, Field(_)) == list # <<>> /\ \A k \in 1..Len(list) : IsNil(Field(list[k]))

\* the per-interface fields
C6_IfacePart(live) ==
    LET ifaces == InterfacesOrEmpty(live)
        Speed(f) == f.SpeedInMBits
        Rx(f) == f.RxMonthlyInMiB
        Tx(f) == f.TxMonthlyInMiB
    IN /\ AllLack(ifaces, Speed) => NoSample("scp_interface_speed_mbits")
       /\ AllLack(ifaces, Rx) => NoSample("scp_monthlytraffic_in_bytes")
       /\ AllLack(ifaces, Tx) => NoSample("scp_monthlytraffic_out_bytes")

\* the per-disk fields
C6_DiskPart(live) ==
    LET disks == IF IsNil(live.Disks) THEN <<>> ELSE Deref(live.Disks)
        Cap(d) == d.CapacityInMiB
        Alloc(d) == d.AllocationInMiB
    IN /\ AllLack(disks, Cap) => NoSample("scp_disk_capacity_bytes")
       /\ AllLack(disks, Alloc) => NoSample("scp_disk_used_bytes")

C6_AbsentNumberIsOmitted ==
    (variant = "rest" /\ pc = "done" /\ Len(UpstreamListing) = 1 /\ ~DetailFails(1)) =>
        LET server == Deref(upstream.detail[1].JSON200)
        IN /\ C6_ScalarPart(server)
           /\ ~IsNil(server.ServerLiveInfo) =>
                /\ C6_IfacePart(Deref(server.ServerLiveInfo))
                /\ C6_DiskPart(Deref(server.ServerLiveInfo))

(***************************************************************************)
(* C7: every REST scrape sends exactly one api_up sample, first on the     *)
(* channel, valued 1 exactly when the ping call returned no error and      *)
(* status 200; whatever the ping returned, the scrape goes on to the       *)
(* maintenance call and the server listing.                                *)
(***************************************************************************)
PingSucceeded == ~upstream.ping.err /\ upstream.ping.status = 200

C7_ApiUpAlwaysSent ==
    (variant = "rest" /\ pc # "idle") =>
        /\ Len(ch) >= 1
        /\ ch[1] = [fqName |-> "scp_api_up", labels |-> <<>>,
                    value |-> IF PingSucceeded THEN 1 ELSE 0]
        /\ \A i \in 2..Len(ch) : ch[i].fqName # "scp_api_up"
        /\ Ended => Called("maintenance") /\ Called("servers")
        /\ (Ended /\ UpstreamListing # <<>> /\ ~IsNil(UpstreamListing[1].Id)) => DetailCalled(1)

\* a scrape whose ping failed in transport and that went on to per-server samples
C7_Witness ==
    /\ variant = "rest"
    /\ pc = "done"
    /\ upstream.ping.err
    /\ ch[1].fqName = "scp_api_up"
    /\ ch[1].value = 0
    /\ DetailCalled(1)
    /\ \E i \in 1..Len(ch) : IsPerServer(ch[i])

(***************************************************************************)
(* C8: the REST scrape issues its calls in the order ping, maintenance,    *)
(* server listing, task listing, then one detail call per listed server in *)
(* listing order; in particular no detail call precedes the task listing.  *)
(***************************************************************************)
ExpectedOp(i) ==
    CASE i = 1 -> "ping"
      [] i = 2 -> "maintenance"
      [] i = 3 -> "servers"
      [] i = 4 -> "tasks"
      [] OTHER -> "detail"

C8_CallOrder ==
    variant = "rest" =>
        \A i \in 1..Len(calls) :
            /\ calls[i].op = ExpectedOp(i)
            /\ calls[i].server = IF i > 4 THEN i - 4 ELSE 0

\* a finished scrape that made all four leading calls and two detail calls
C8_Witness ==
    /\ variant = "rest"
    /\ pc = "done"
    /\ Len(calls) = 6
    /\ calls[4].op = "tasks"
    /\ calls[6] = Call("detail", 2)

(***************************************************************************)
(* C9: Collect() never panics, whichever optional fields of a listing      *)
(* entry or of a detail response are absent.                               *)
(***************************************************************************)
C9_NoPanic == pc # "panic"

(***************************************************************************)
(* C10: Describe() sends a non-empty list of descriptors that is the same  *)
(* on every call, and a Describe() step issues no upstream request and     *)
(* leaves the running scrape alone.                                        *)
(***************************************************************************)
DescribedIsFixed ==
    described # <<>> =>
        /\ Len(described) = IF variant = "rest" THEN 29 ELSE 13
        /\ \A i, j \in 1..Len(described) : described[i] = described[j] => i = j
        /\ described[1].fqName = "scp_cpu_cores"

DescribeStep ==
    /\ described # <<>> => described' = described
    /\ described' # described => /\ calls' = calls
                                 /\ pc' = pc
                                 /\ ch' = ch
                                 /\ log' = log

C10_DescribeIsStatic == []DescribedIsFixed /\ [][DescribeStep]_vars

\* Describe() has been called in the middle of a scrape that already sent samples
C10_Witness ==
    /\ described # <<>>
    /\ pc = "loop"
    /\ Len(calls) >= 1
    /\ Len(ch) >= 1

(***************************************************************************)
(* C11: when the task listing returns a success payload, the scrape sends  *)
(* one task_info sample valued 1 per task, in payload order, labelled      *)
(* (uuid, name, state) with "" for a missing field, and exactly one        *)
(* tasks_pending sample, without labels, valued the number of tasks whose  *)
(* state is PENDING or RUNNING (a task without state is not counted).      *)
(***************************************************************************)
TasksSucceeded == ~upstream.tasks.err /\ ~IsNil(upstream.tasks.JSON200)

IsTaskInfo(m) == m.fqName = "scp_task_info"
IsTasksPending(m) == m.fqName = "scp_tasks_pending_count"

FieldOrEmpty(p) == IF p = <<>> THEN "" ELSE p[1]

C11_TaskSamples ==
    (variant = "rest" /\ Called("tasks") /\ TasksSucceeded) =>
        LET tasks == upstream.tasks.JSON200[1]
            infos == SelectSeq(ch, IsTaskInfo)
            pendings == SelectSeq(ch, IsTasksPending)
            counted == {i \in 1..Len(tasks) :
                           tasks[i].State \in {<<"PENDING">>, <<"RUNNING">>}}
        IN /\ Len(infos) = Len(tasks)
           /\ \A i \in 1..Len(tasks) :
                 /\ infos[i].value = 1
                 /\ infos[i].labels = <<FieldOrEmpty(tasks[i].Uuid), FieldOrEmpty(tasks[i].Name),
                                        FieldOrEmpty(tasks[i].State)>>
           /\ Len(pendings) = 1
           /\ pendings[1].labels = <<>>
           /\ pendings[1].value = Cardinality(counted)

\* a finished scrape whose payload had a task without state and a pending one
C11_Witness ==
    /\ variant = "rest"
    /\ pc = "done"
    /\ TasksSucceeded
    /\ Len(upstream.tasks.JSON200[1]) = 2
    /\ upstream.tasks.JSON200[1][1].State = <<>>
    /\ upstream.tasks.JSON200[1][1].Uuid = <<>>
    /\ upstream.tasks.JSON200[1][2].State = <<"PENDING">>
    /\ \E i \in 1..Len(ch) : IsTasksPending(ch[i]) /\ ch[i].value = 1

(***************************************************************************)
(* C12: parseUptimeString parses every uptime text of the form             *)
(* "<d> day(s) <h> hour(s) <m> minute(s)", with any trailing units left    *)
(* out, without error to d*86400 + h*3600 + m*60 seconds; so               *)
(* "3 days 4 hours 5 minutes" gives 273900 and "1 day 1 hour" gives 90000. *)
(* Stated of the uptime texts of the servers the scrape has processed.     *)
(***************************************************************************)
\* the text has days, and minutes only after hours
TrailingUnitsForm(d, h, m) == d >= 1 /\ (h = 0 => m = 0)

UptimeOf(j) == upstream.info[j].resp[1].Return_[1].Uptime

C12_UptimeParses ==
    variant \in SoapVariants =>
        \A j \in 1..Len(UpstreamListing) :
            (DetailCalled(j) /\ ~DetailFails(j)) =>
                \A d \in 1..9, h \in 0..9, m \in 0..9 :
                    (TrailingUnitsForm(d, h, m) /\ UptimeOf(j) = UptimeString(d, h, m)) =>
                        parseUptimeString(UptimeOf(j))
                            = [err |-> FALSE, d |-> d * 86400 + h * 3600 + m * 60]

(***************************************************************************)
(* C13: in the collectors that read the uptime as text, when the uptime of *)
(* a server fails to parse, the error is logged, no server_start_time      *)
(* sample is sent for that server, and the scrape goes on to the servers   *)
(* listed after it.                                                        *)
(***************************************************************************)
UptimeFails(j) == DetailCalled(j) /\ ~DetailFails(j) /\ parseUptimeString(UptimeOf(j)).err

\* no other listed server carries the name of the j-th
NameIsUnique(j) ==
    \A k \in 1..Len(UpstreamListing) : UpstreamListing[k] = UpstreamListing[j] => k = j

C13_ParseFailureOmitsStartTime ==
    (variant \in SoapVariants /\ Ended) =>
        \A j \in 1..Len(UpstreamListing) :
            (UptimeFails(j) /\ NameIsUnique(j)) =>
                /\ \E i \in 1..Len(log) : log[i] = "Unable to parse uptime"
                /\ \A i \in 1..Len(ch) :
                      ~(/\ ch[i].fqName = "scp_server_start_time_seconds"
                        /\ ch[i].labels = <<UpstreamListing[j]>>)
                /\ \A k \in (j + 1)..Len(UpstreamListing) : DetailCalled(k)

(***************************************************************************)
(* C14: on each fatal startup failure (a missing credential, a listener    *)
(* that cannot be bound, a landing page that cannot be built) the process  *)
(* exits with code 1, and the HTTP server never starts serving.            *)
(***************************************************************************)
MissingCredential == proc.env.loginName = "" \/ proc.env.password = ""
StartupFailure == MissingCredential \/ proc.env.bindErr \/ proc.env.landingErr
StartupOver == proc.pc \in {"serving", "exited"}

C14_FatalStartupExits ==
    /\ StartupFailure => ~proc.serving
    /\ (StartupOver /\ StartupFailure) => proc.exit = <<1>>

(***************************************************************************)
(* C15: the maintenance start gauge is sent, once, exactly when the        *)
(* maintenance lookup succeeds with a start field, and the finish gauge,   *)
(* once, exactly when it succeeds with a finish field; a failing lookup is *)
(* logged, and the scrape goes on to the server listing, the task listing  *)
(* and the per-server loop.                                                *)
(***************************************************************************)
MaintenanceField(f) ==
    IF upstream.maint.err \/ upstream.maint.JSON200 = <<>> THEN <<>>
    ELSE upstream.maint.JSON200[1][f]

\* the samples of gauge fqName on the channel are those of the field f
GaugeFollowsField(fqName, f) ==
    LET IsGauge(m) == m.fqName = fqName
    IN SelectSeq(ch, IsGauge)
         = IF MaintenanceField(f) = <<>> THEN <<>>
           ELSE << [fqName |-> fqName, labels |-> <<>>, value |-> MaintenanceField(f)[1]] >>

ListingSucceeded == ~upstream.servers.err /\ upstream.servers.JSON200 # <<>>

RECURSIVE SoloServers(_)
SoloServers(j) ==
    IF j > Len(UpstreamListing) \/ UpstreamListing[j].Id = <<>> THEN <<>>
    ELSE (IF DetailFails(j) THEN <<>> ELSE ExpectedServerSamples(j)) \o SoloServers(j + 1)

\* what one Collect() sends when it runs alone
SoloSamples ==
    << [fqName |-> "scp_api_up", labels |-> <<>>, value |-> IF PingSucceeded THEN 1 ELSE 0] >>
    \o MaintenanceSamples(collector, upstream.maint)
    \o (IF ListingSucceeded
        THEN TaskSamples(collector, upstream.tasks) \o SoloServers(1)
        ELSE <<>>)

IsPrefix(q, r) == Len(q) <= Len(r) /\ q = SubSeq(r, 1, Len(q))

SamplesAsAlone ==
    \A g \in Invocations :
        /\ IsPrefix(inv[g].ch, SoloSamples)
        /\ inv[g].pc = "done" => inv[g].ch = SoloSamples

C16_NoInterference == []SamplesAsAlone /\ [][collector' = collector]_vars

\* one invocation has returned with per-server samples while the other is in its loop
C16_Witness ==
    /\ inv["g1"].pc = "done"
    /\ Len(inv["g1"].ch) > 4
    /\ inv["g2"].pc = "loop"
    /\ inv["g2"].await
    /\ inv["g2"].idx = 2
    /\ inv["g2"].ch # <<>>
    /\ inv["g2"].ch # inv["g1"].ch

(***************************************************************************)
(* C17: within one Collect() invocation at most one upstream request is in *)
(* flight at any time, and a request is issued only when none is.          *)
(***************************************************************************)
OneInFlight ==
    \A g \in Invocations :
        /\ Cardinality(inv[g].inflight) <= 1
        /\ inv[g].await <=> inv[g].inflight # {}

IssuedAfterReturn ==
    \A g \in Invocations : Len(inv'[g].calls) > Len(inv[g].calls) => inv[g].inflight = {}

C17_OneCallInFlight == []OneInFlight /\ [][IssuedAfterReturn]_vars

\* the second detail request of an invocation is in flight, after five answered ones
C17_Witness ==
    /\ inv["g1"].inflight = {[op |-> "detail", server |-> 2]}
    /\ Len(inv["g1"].calls) = 6
    /\ inv["g2"].inflight # {}

(***************************************************************************)
(* C18: no request is retried within a scrape: the ping, maintenance,      *)
(* server-listing and task-listing requests are issued at most once each,  *)
(* and the detail request exactly once per entry of the server listing,    *)
(* whether it succeeds or fails.                                           *)
(***************************************************************************)
TimesCalled(call) == Cardinality({i \in 1..Len(calls) : calls[i] = call})

AtMostOnceEach ==
    /\ \A op \in {"ping", "maintenance", "servers", "tasks"} :
          TimesCalled([op |-> op, server |-> 0]) <= 1
    /\ \A i \in 1..Len(calls) : TimesCalled(calls[i]) = 1

C18_NoRetry ==
    variant = "rest" =>
        /\ AtMostOnceEach
        /\ Ended => \A j \in 1..Len(UpstreamListing) :
                        TimesCalled([op |-> "detail", server |-> j]) = 1

(***************************************************************************)
(* C19: when the server-listing call fails or brings no success payload,   *)
(* the scrape ends there: it has sent api_up and the maintenance gauges    *)
(* only, each a complete sample, it sends no task or per-server sample,    *)
(* and it issues no task request and no detail request.                    *)
(***************************************************************************)
BeforeListingGauges ==
    {"scp_api_up", "scp_maintenance_start_time_seconds", "scp_maintenance_finish_time_seconds"}

C19_ListingFailureEndsScrape ==
    (variant = "rest" /\ Called("servers") /\ ~ListingSucceeded) =>
        /\ pc = "done"
        /\ ~Called("tasks")
        /\ ~Called("detail")
        /\ calls[Len(calls)].op = "servers"
        /\ ch[1].fqName = "scp_api_up"
        /\ \A i \in 1..Len(ch) :
              /\ ch[i].fqName \in BeforeListingGauges
              /\ ch[i].labels = <<>>
              /\ ch[i].value >= 0
        /\ \E i \in 1..Len(log) : log[i] = "Unable to get servers"

\* a scrape ended by a listing without payload, after a maintenance gauge was sent
C19_Witness ==
    /\ variant = "rest"
    /\ pc = "done"
    /\ Called("servers")
    /\ ~upstream.servers.err
    /\ upstream.servers.JSON200 = <<>>
    /\ Len(ch) = 3

(***************************************************************************)
(* C20: when the task-listing call fails, the error is logged, no          *)
(* task_info and no tasks_pending sample is sent, and the detail           *)
(* collection still runs for every listed server.                          *)
(***************************************************************************)
C20_TaskFailureSkipsTaskGauges ==
    (variant = "rest" /\ Ended /\ Called("tasks") /\ upstream.tasks.err) =>
        /\ \E i \in 1..Len(log) : log[i] = "Unable to get tasks"
        /\ \A i \in 1..Len(ch) : ~IsTaskInfo(ch[i]) /\ ~IsTasksPending(ch[i])
        /\ \A j \in 1..Len(UpstreamListing) : DetailCalled(j)

(***************************************************************************)
(* C21: for each upstream call (maintenance, server listing, task          *)
(* listing, server detail) a response without success payload is treated   *)
(* as a transport error of that call: the same samples, the same logged    *)
(* error and the same continue/return decision.                            *)
(***************************************************************************)
Logged(msg) == \E i \in 1..Len(log) : log[i] = msg

\* the response of a call that returned without error and without payload
Unpaid(r) == ~r.err /\ IsNil(r.JSON200)

C21_NoPayloadLikeTransportError ==
    (variant = "rest" /\ Ended) =>
        /\ (Called("maintenance") /\ Unpaid(upstream.maint)) =>
              /\ Logged("Unable to get maintenance information")
              /\ NoSample("scp_maintenance_start") /\ NoSample("scp_maintenance_finish")
        /\ (Called("servers") /\ Unpaid(upstream.servers)) =>
              /\ Logged("Unable to get servers")
              /\ ~Called("tasks") /\ ~Called("detail")
        /\ (Called("tasks") /\ Unpaid(upstream.tasks)) =>
              /\ Logged("Unable to get tasks")
              /\ \A i \in 1..Len(ch) : ~IsTaskInfo(ch[i]) /\ ~IsTasksPending(ch[i])
        /\ \A j \in 1..Len(UpstreamListing) :
              (DetailCalled(j) /\ Unpaid(upstream.detail[j])) =>
                  /\ Logged("Unable to get Server Information")
                  /\ (pc = "done" => \A k \in 1..Len(UpstreamListing) : DetailCalled(k))

(***************************************************************************)
(* C22: for every server with live info exactly one disk_optimization      *)
(* sample is sent per disk, in the order of the disks; all of them carry   *)
(* the value and the message of the server's RequiredStorageOptimization:  *)
(* 1 with the field's text when it is present and not NO, else 0 with an   *)
(* empty message.                                                          *)
(***************************************************************************)
IsDiskOptimization(m) == m.fqName = "scp_disk_optimization"

\* the samples the step has appended to the channel
Appended == SubSeq(ch', Len(ch) + 1, Len(ch'))

\* the step is the successful detail call of the idx-th server, which has live info
DetailStepWithLiveInfo ==
    /\ variant = "rest"
    /\ pc = "loop"
    /\ calls' = Append(calls, Call("detail", idx))
    /\ ~DetailFails(idx)
    /\ ~IsNil(Deref(upstream.detail[idx].JSON200).ServerLiveInfo)

C22_DiskOptimizationPerDisk ==
    [][DetailStepWithLiveInfo =>
        LET liveInfo == Deref(Deref(upstream.detail[idx].JSON200).ServerLiveInfo)
            disks == IF IsNil(liveInfo.Disks) THEN <<>> ELSE Deref(liveInfo.Disks)
            field == liveInfo.RequiredStorageOptimization
            needed == field # <<>> /\ field[1] # "NO"
            sent == SelectSeq(Appended, IsDiskOptimization)
        IN /\ Len(sent) = Len(disks)
           /\ \A k \in 1..Len(disks) :
                 /\ sent[k].value = (IF needed THEN 1 ELSE 0)
                 /\ sent[k].labels =
                        << FieldOrEmpty(listing[idx].Name), FieldOrEmpty(disks[k].Driver),
                           FieldOrEmpty(disks[k].Dev), IF needed THEN field[1] ELSE "" >>
    ]_vars

\* two disks of a server that needs optimization, both reported with 1 and the text
C22_Witness ==
    /\ variant = "rest"
    /\ pc = "done"
    /\ Len(UpstreamListing) = 1
    /\ DetailCalled(1)
    /\ ~DetailFails(1)
    /\ Count(ch, LAMBDA m : IsDiskOptimization(m) /\ m.value = 1 /\ m.labels[4] = "YES") = 2

(***************************************************************************)
(* C23: the detail requests are issued in the order of the listing, which  *)
(* is not sorted again, and all samples of a server are sent before the    *)
(* detail request of the next server is issued.                            *)
(***************************************************************************)
RECURSIVE ServersBefore(_)
\* what the servers in front of the j-th listed one contribute, in listing order
ServersBefore(j) ==
    IF j <= 1 THEN <<>>
    ELSE ServersBefore(j - 1)
         \o (IF DetailFails(j - 1) THEN <<>> ELSE ExpectedServerSamples(j - 1))

\* what Collect() has sent when it enters the loop
BeforeLoopSamples ==
    << [fqName |-> "scp_api_up", labels |-> <<>>, value |-> IF PingSucceeded THEN 1 ELSE 0] >>
    \o MaintenanceSamples(collector, upstream.maint)
    \o TaskSamples(collector, upstream.tasks)

IsDetailCall(call) == call.op = "detail"

C23_DetailInListingOrder ==
    \A g \in Invocations :
        LET l == inv[g]
            details == SelectSeq(l.calls, IsDetailCall)
        IN /\ l.listing \in {<<>>, UpstreamListing}
           /\ \A k \in 1..Len(details) : details[k] = Call("detail", k)
           /\ (l.pc = "loop" /\ l.await) =>
                 /\ Len(details) = l.idx
                 /\ l.ch = BeforeLoopSamples \o ServersBefore(l.idx)

\* the request for the second server is out and the samples of the first are sent
C23_Witness ==
    \E g \in Invocations :
        /\ inv[g].pc = "loop"
        /\ inv[g].await
        /\ inv[g].idx = 2
        /\ ~DetailFails(1)
        /\ Len(inv[g].ch) = Len(BeforeLoopSamples) + Len(ExpectedServerSamples(1))
        /\ Len(ExpectedServerSamples(1)) > 0

(***************************************************************************)
(* C24: monthlytraffic_in of a server is the sum, over its interfaces, of  *)
(* the received MiB counter times 1024 x 1024, and monthlytraffic_out the  *)
(* same for the transmitted counter; every interface is counted once and   *)
(* an interface without the counter adds nothing.                          *)
(***************************************************************************)
RECURSIVE SumOf(_)
SumOf(q) == IF q = <<>> THEN 0 ELSE Head(q) + SumOf(Tail(q))

\* the counter in MiB, 0 when the interface has none
CounterMiB(p) == IF p = <<>> THEN 0 ELSE p[1]

IsTrafficIn(m) == m.fqName = "scp_monthlytraffic_in_bytes"
IsTrafficOut(m) == m.fqName = "scp_monthlytraffic_out_bytes"

C24_TrafficSums ==
    [][DetailStepWithLiveInfo =>
        LET liveInfo == Deref(Deref(upstream.detail[idx].JSON200).ServerLiveInfo)
            ifaces == IF liveInfo.Interfaces = <<>> THEN <<>> ELSE liveInfo.Interfaces[1]
            rx == [i \in 1..Len(ifaces) |-> CounterMiB(ifaces[i].RxMonthlyInMiB)]
            tx == [i \in 1..Len(ifaces) |-> CounterMiB(ifaces[i].TxMonthlyInMiB)]
            ins == SelectSeq(Appended, IsTrafficIn)
            outs == SelectSeq(Appended, IsTrafficOut)
        IN /\ Len(ins) = 1
           /\ Len(outs) = 1
           /\ ins[1].value = SumOf(rx) * 1048576
           /\ outs[1].value = SumOf(tx) * 1048576
    ]_vars

\* two interfaces with 1 and 2 MiB received: 3 MiB in bytes are reported
C24_Witness ==
    /\ variant = "rest"
    /\ pc = "done"
    /\ Len(UpstreamListing) = 1
    /\ DetailCalled(1)
    /\ ~DetailFails(1)
    /\ LET liveInfo == Deref(upstream.detail[1].JSON200).ServerLiveInfo
       IN /\ liveInfo # <<>>
          /\ liveInfo[1].Interfaces # <<>>
          /\ Len(liveInfo[1].Interfaces[1]) = 2
          /\ liveInfo[1].Interfaces[1][1].RxMonthlyInMiB = <<1>>
          /\ liveInfo[1].Interfaces[1][2].RxMonthlyInMiB = <<2>>
    /\ Count(ch, LAMBDA m : IsTrafficIn(m) /\ m.value = 3145728) = 1

(***************************************************************************)
(* C25: every gauge in bytes that comes from a field in MiB (memory, max   *)
(* memory, available disk space, disk capacity, disk allocation) is the    *)
(* field times 1024 x 1024 for every value of the field, without wrapping  *)
(* around in the multiplication.                                           *)
(***************************************************************************)
\* value is p MiB in bytes; stated by division so that no product is formed
IsBytesOf(value, mib) == value >= 0 /\ value % 1048576 = 0 /\ value \div 1048576 = mib

\* the samples named fqName among those the step appended are those of the fields
BytesFollow(fqName, fields) ==
    LET sent == SelectSeq(Appended, LAMBDA m : m.fqName = fqName)
    IN /\ Len(sent) = Len(fields)
       /\ \A k \in 1..Len(fields) : IsBytesOf(sent[k].value, fields[k])

EveryEntryVisitedOnce ==
    \A j \in 1..Len(UpstreamListing) : TimesCalled(Call("detail", j)) = 1

C26_CollectTerminates ==
    (variant = "rest" /\ Running) ~> (pc = "done" /\ (Called("tasks") => EveryEntryVisitedOnce))

(***************************************************************************)
(* C27: every sample Collect() sends is built from a descriptor that       *)
(* Describe() of the same collector yields, in every variant.              *)
(***************************************************************************)
\* the descriptor of sample m is among those Describe() sends
IsDescribed(m) ==
    \E k \in 1..Len(DescribeOutput) :
        /\ DescribeOutput[k].fqName = m.fqName
        /\ Len(DescribeOutput[k].variableLabels) = Len(m.labels)

C27_SamplesAreDescribed == \A i \in 1..Len(ch) : IsDescribed(ch[i])

(***************************************************************************)
(* C28: within one scrape no two samples have the same name and the same   *)
(* label values, whatever the upstream answers.                            *)
(***************************************************************************)
SameSeries(m, n) == m.fqName = n.fqName /\ m.labels = n.labels

C28_NoDuplicateSeries ==
    variant = "rest" =>
        \A i \in 1..Len(ch) : \A j \in 1..Len(ch) : (i # j) => ~SameSeries(ch[i], ch[j])

====
